---------------------------- MODULE Spec2Model ----------------------------
(***************************************************************************)
(* fleet-plan: the diff engine (internal/diff/differ.go) and the path      *)
(* resolution of the repository loader (internal/parser/parser.go).        *)
(*                                                                         *)
(* A Go string is a sequence of one-character strings, so that trimming,   *)
(* whitespace collapsing, lower-casing, prefix stripping and byte-order    *)
(* comparison are computed as the code computes them.  A Go slice is a     *)
(* sequence, a nil slice the empty sequence, a Go map a function.  The     *)
(* iteration order of a Go map is unspecified: every operator that ranges  *)
(* over a map returns the SET of results the orders can produce.           *)
(***************************************************************************)
EXTENDS Integers, Sequences, FiniteSets, TLC

VARIABLES
    current,      \* *api.FleetState handed to Diff
    proposed,     \* *parser.ParsedRepo handed to Diff
    teamFilter,   \* teamFilter argument of Diff
    results,      \* []DiffResult returned by the latest call of Diff
    previous,     \* []DiffResult returned by the call before it
    calls,        \* number of calls made so far
    disk,         \* the file system ParseRepo reads
    workingDir,   \* working directory of the latest call of ParseRepo
    rootArg,      \* root argument of the latest call of ParseRepo
    defaultFile,  \* defaultFile argument of the latest call of ParseRepo
    repoRoot,     \* package variable repoRoot of the parser
    parsed,       \* what the latest call of ParseRepo returned and read
    server,       \* what the Fleet server answers to each request of FetchAll
    wantGlobal,   \* wantGlobal of the call of FetchAll
    fetchPc,      \* statement the goroutine of FetchAll is at
    listedTeams,  \* local variable teams of FetchAll
    state,        \* the *FleetState FetchAll is filling
    teamResults,  \* local variable teamResults of FetchAll
    pending,      \* g.Go calls FetchAll has still to make, in program order
    active,       \* functions of the errgroup that are running
    groupErr,     \* first error a function of the errgroup returned
    returned,     \* what FetchAll returned
    loads         \* the calls of ParseRepo that overlap, one per goroutine

vars ==
    <<current, proposed, teamFilter, results, previous, calls,
      disk, workingDir, rootArg, defaultFile, repoRoot, parsed,
      server, wantGlobal, fetchPc, listedTeams, state, teamResults, pending,
      active, groupErr, returned, loads>>

\* The variables of a call of FetchAll.
fetchVars ==
    <<server, wantGlobal, fetchPc, listedTeams, state, teamResults, pending,
      active, groupErr, returned>>

(***************************************************************************)
(* Bounds of the model.                                                    *)
(***************************************************************************)
MaxItems == 2      \* longest resource list drawn for one side of a diff
MaxHosts == 1      \* largest passing / failing host count drawn
MaxCalls == 2      \* calls of Diff on the same inputs
MaxRefs == 2       \* most path: references drawn for one file of a repository
MaxLoads == 2      \* goroutines that call ParseRepo

(***************************************************************************)
(* Strings.                                                                *)
(***************************************************************************)
\* The characters of the model, in byte order.
Alphabet ==
    << "\n", " ", "$", ".", "/",
       "0", "1", "2", "3", "4", "5", "6", "7", "8", "9",
       ":", "<", ">",
       "A", "B", "M", "N", "S", "T", "X", "Z", "[", "\\", "]", "_",
       "a", "b", "c", "d", "e", "f", "g", "h", "i", "j", "k", "l", "m",
       "n", "o", "p", "q", "r", "s", "t", "u", "v", "w", "x", "y", "z",
       "|" >>

Chars == { Alphabet[i] : i \in 1..Len(Alphabet) }

Ord == [ c \in Chars |-> CHOOSE i \in 1..Len(Alphabet) : Alphabet[i] = c ]

Digits == << "0", "1", "2", "3", "4", "5", "6", "7", "8", "9" >>

\* unicode.IsSpace / the regexp class \s, on the characters of the model.
IsSpace(c) == c \in { " ", "\n" }

\* a < b for Go strings (bytewise lexicographic).
RECURSIVE StrLess(_, _)
StrLess(a, b) ==
    IF b = <<>> THEN FALSE
    ELSE IF a = <<>> THEN TRUE
    ELSE IF a[1] # b[1] THEN Ord[a[1]] < Ord[b[1]]
    ELSE StrLess(Tail(a), Tail(b))

RECURSIVE TrimLeft(_)
TrimLeft(s) ==
    IF s # <<>> /\ IsSpace(s[1]) THEN TrimLeft(Tail(s)) ELSE s

RECURSIVE TrimRight(_)
TrimRight(s) ==
    IF s # <<>> /\ IsSpace(s[Len(s)])
    THEN TrimRight(SubSeq(s, 1, Len(s) - 1))
    ELSE s

\* strings.TrimSpace
TrimSpace(s) == TrimRight(TrimLeft(s))

\* wsRE.ReplaceAllString(s, " ") with wsRE = `\s+`: every maximal run of
\* whitespace becomes one space.
RECURSIVE ReplaceWS(_)
ReplaceWS(s) ==
    IF s = <<>> THEN <<>>
    ELSE IF IsSpace(s[1]) THEN <<" ">> \o ReplaceWS(TrimLeft(s))
    ELSE <<s[1]>> \o ReplaceWS(Tail(s))

LowerOf(c) ==
    CASE c = "A" -> "a"
      [] c = "B" -> "b"
      [] c = "M" -> "m"
      [] c = "N" -> "n"
      [] c = "S" -> "s"
      [] c = "T" -> "t"
      [] c = "X" -> "x"
      [] c = "Z" -> "z"
      [] OTHER   -> c

\* strings.ToLower
ToLower(s) == [ i \in 1..Len(s) |-> LowerOf(s[i]) ]

\* strings.EqualFold
EqualFold(a, b) == ToLower(a) = ToLower(b)

\* strings.HasPrefix
HasPrefix(s, p) == Len(s) >= Len(p) /\ SubSeq(s, 1, Len(p)) = p

\* strings.TrimPrefix
TrimPrefix(s, p) ==
    IF HasPrefix(s, p) THEN SubSeq(s, Len(p) + 1, Len(s)) ELSE s

\* strings.ReplaceAll(s, "\\", "/")
BackslashToSlash(s) ==
    [ i \in 1..Len(s) |-> IF s[i] = "\\" THEN "/" ELSE s[i] ]

\* strings.Index(s, sub), 1-based; 0 when sub does not occur.
Index(s, sub) ==
    LET hits == { i \in 1..(Len(s) - Len(sub) + 1) :
                      SubSeq(s, i, i + Len(sub) - 1) = sub }
    IN  IF hits = {} THEN 0
        ELSE CHOOSE i \in hits : \A j \in hits : i <= j

\* strings.Contains(s, c) for a one-character c
ContainsChar(s, c) == \E i \in 1..Len(s) : s[i] = c

\* strings.Join(parts, sep)
RECURSIVE Join(_, _)
Join(parts, sep) ==
    IF parts = <<>> THEN <<>>
    ELSE IF Len(parts) = 1 THEN parts[1]
    ELSE parts[1] \o sep \o Join(Tail(parts), sep)

\* fmt.Sprint of an unsigned integer: its decimal digits.
RECURSIVE SprintUint(_)
SprintUint(n) ==
    IF n < 10 THEN << Digits[n + 1] >>
    ELSE SprintUint(n \div 10) \o << Digits[(n % 10) + 1] >>

\* fmt.Sprint of a bool
SprintBool(b) ==
    IF b THEN <<"t", "r", "u", "e">> ELSE <<"f", "a", "l", "s", "e">>

\* A normalizeWS that collapses the runs and leaves the ends alone.
normalizeWSUntrimmed(s) == ReplaceWS(s)

\* normalizeWS collapses all whitespace runs into a single space and trims.
normalizeWS(s) == TrimSpace(ReplaceWS(s))

(***************************************************************************)
(* Sequences and maps.                                                     *)
(***************************************************************************)
Range(s) == { s[i] : i \in 1..Len(s) }

\* [ f(s[1]), ..., f(s[n]) ]
MapSeq(s, f(_)) == [ i \in 1..Len(s) |-> f(s[i]) ]

\* All sequences over S of length at most n.
SeqsUpTo(S, n) == UNION { [ 1..k -> S ] : k \in 0..n }

\* All enumerations of a finite set: the orders a `range` over a map with
\* these keys can take.
Perms(S) ==
    { p \in [ 1..Cardinality(S) -> S ] :
          \A i, j \in 1..Cardinality(S) : i # j => p[i] # p[j] }

\* A map[string]FieldDiff built from <<field, Old, New>> triples.
FieldMap(triples) ==
    [ f \in { t[1] : t \in triples } |->
        LET t == CHOOSE t \in triples : t[1] = f
        IN  [ Old |-> t[2], New |-> t[3] ] ]

NoFields == FieldMap({})


\* s[1] \o s[2] \o ... for a sequence of sequences.
RECURSIVE Flatten(_)
Flatten(ss) == IF ss = <<>> THEN <<>> ELSE ss[1] \o Flatten(Tail(ss))

\* A map built by `for _, x := range list { m[x.Name] = x }`: a name is a
\* key when some element carries it, and the last such element is its value.
HasName(list, name) == \E i \in 1..Len(list) : list[i].Name = name

ByName(list, name) ==
    list[CHOOSE i \in 1..Len(list) :
            /\ list[i].Name = name
            /\ \A j \in (i + 1)..Len(list) : list[j].Name # name]

(***************************************************************************)
(* Result types.                                                           *)
(***************************************************************************)
\* ResourceChange{Name, Fields, HostCount, Warning}
ResourceChange(name, fields, hostCount, warning) ==
    [ Name |-> name, Fields |-> fields, HostCount |-> hostCount,
      Warning |-> warning ]

\* var diff ResourceDiff
EmptyResourceDiff == [ Added |-> <<>>, Modified |-> <<>>, Deleted |-> <<>> ]

\* var validation LabelValidation
EmptyLabelValidation == [ Valid |-> <<>>, Missing |-> <<>> ]

\* DiffResult{Team: team}
DiffResult(team) ==
    [ Team     |-> team,
      Policies |-> EmptyResourceDiff,
      Queries  |-> EmptyResourceDiff,
      Software |-> EmptyResourceDiff,
      Profiles |-> EmptyResourceDiff,
      Labels   |-> EmptyLabelValidation,
      Config   |-> <<>>,
      Errors   |-> <<>> ]

\* ResourceDiff.Total
Total(d) == Len(d.Added) + Len(d.Modified) + Len(d.Deleted)

(***************************************************************************)
(* Policies.                                                               *)
(***************************************************************************)
\* Added fields that keep the text of the policy as it was written.
PolicyAddedFieldsRaw(p) ==
    FieldMap(
        { <<"query", <<>>, p.Query>>,
          <<"platform", <<>>, p.Platform>>,
          <<"critical", <<>>, SprintBool(p.Critical)>> }
        \cup (IF p.Description # <<>>
              THEN { <<"description", <<>>, p.Description>> }
              ELSE {})
        \cup (IF p.Resolution # <<>>
              THEN { <<"resolution", <<>>, p.Resolution>> }
              ELSE {}))

\* The fields of an added policy (differ.go 199-209).
PolicyAddedFields(p) ==
    FieldMap(
        { <<"query", <<>>, normalizeWS(p.Query)>>,
          <<"platform", <<>>, p.Platform>>,
          <<"critical", <<>>, SprintBool(p.Critical)>> }
        \cup (IF p.Description # <<>>
              THEN { <<"description", <<>>, normalizeWS(p.Description)>> }
              ELSE {})
        \cup (IF p.Resolution # <<>>
              THEN { <<"resolution", <<>>, normalizeWS(p.Resolution)>> }
              ELSE {}))

\* The differing fields of a policy present on both sides (differ.go 214-229).
PolicyChangedFields(cur, p) ==
    FieldMap(
        (IF normalizeWS(cur.Query) # normalizeWS(p.Query)
         THEN { <<"query", normalizeWS(cur.Query), normalizeWS(p.Query)>> }
         ELSE {})
        \cup (IF normalizeWS(cur.Description) # normalizeWS(p.Description)
              THEN { <<"description", normalizeWS(cur.Description),
                       normalizeWS(p.Description)>> }
              ELSE {})
        \cup (IF normalizeWS(cur.Resolution) # normalizeWS(p.Resolution)
              THEN { <<"resolution", normalizeWS(cur.Resolution),
                       normalizeWS(p.Resolution)>> }
              ELSE {})
        \cup (IF cur.Platform # p.Platform
              THEN { <<"platform", cur.Platform, p.Platform>> }
              ELSE {})
        \cup (IF cur.Critical # p.Critical
              THEN { <<"critical", SprintBool(cur.Critical),
                       SprintBool(p.Critical)>> }
              ELSE {}))

\* fmt.Sprintf("will delete policy affecting %d hosts", hostCount)
DeleteWarning(hostCount) ==
    IF hostCount > 0
    THEN <<"will delete policy affecting ">> \o SprintUint(hostCount)
             \o <<" hosts">>
    ELSE <<>>

\* A Deleted entry that counts the passing hosts only.
PolicyDeletedPassingOnly(cur) ==
    ResourceChange(cur.Name, NoFields, cur.PassingHostCount,
                   DeleteWarning(cur.PassingHostCount))

\* The Deleted entry of a remote policy (differ.go 243-252).
PolicyDeleted(cur) ==
    LET hostCount == cur.PassingHostCount + cur.FailingHostCount
    IN  ResourceChange(cur.Name, NoFields, hostCount, DeleteWarning(hostCount))

\* A diffPolicies that reports every remote policy as Deleted.
diffPoliciesDeletingAll(cur, prop) ==
    LET exists(p)   == HasName(cur, p.Name)
        isAdded(p)  == ~exists(p)
        isModified(p) ==
            /\ exists(p)
            /\ DOMAIN PolicyChangedFields(ByName(cur, p.Name), p) # {}
        added(p)    == ResourceChange(p.Name, PolicyAddedFields(p), 0, <<>>)
        modified(p) ==
            LET c == ByName(cur, p.Name)
            IN  ResourceChange(p.Name, PolicyChangedFields(c, p),
                               c.PassingHostCount + c.FailingHostCount, <<>>)
    IN  [ Added    |-> MapSeq(SelectSeq(prop, isAdded), added),
          Modified |-> MapSeq(SelectSeq(prop, isModified), modified),
          Deleted  |-> MapSeq(cur, PolicyDeleted) ]

diffPolicies(cur, prop) ==
    LET exists(p)   == HasName(cur, p.Name)
        isAdded(p)  == ~exists(p)
        isModified(p) ==
            /\ exists(p)
            /\ DOMAIN PolicyChangedFields(ByName(cur, p.Name), p) # {}
        added(p)    == ResourceChange(p.Name, PolicyAddedFields(p), 0, <<>>)
        modified(p) ==
            LET c == ByName(cur, p.Name)
            IN  ResourceChange(p.Name, PolicyChangedFields(c, p),
                               c.PassingHostCount + c.FailingHostCount, <<>>)
        isDeleted(c) == ~HasName(prop, c.Name)
    IN  [ Added    |-> MapSeq(SelectSeq(prop, isAdded), added),
          Modified |-> MapSeq(SelectSeq(prop, isModified), modified),
          Deleted  |-> MapSeq(SelectSeq(cur, isDeleted), PolicyDeleted) ]

(***************************************************************************)
(* Queries.                                                                *)
(***************************************************************************)
\* The fields of an added query (differ.go 272-279).
QueryAddedFields(q) ==
    FieldMap(
        { <<"query", <<>>, normalizeWS(q.Query)>>,
          <<"interval", <<>>, SprintUint(q.Interval)>>,
          <<"platform", <<>>, q.Platform>> }
        \cup (IF q.Logging # <<>>
              THEN { <<"logging", <<>>, q.Logging>> }
              ELSE {}))

\* A comparison that reports every difference of logging.
QueryChangedFieldsAnyLogging(cur, q) ==
    FieldMap(
        (IF normalizeWS(cur.Query) # normalizeWS(q.Query)
         THEN { <<"query", normalizeWS(cur.Query), normalizeWS(q.Query)>> }
         ELSE {})
        \cup (IF cur.Interval # q.Interval
              THEN { <<"interval", SprintUint(cur.Interval),
                       SprintUint(q.Interval)>> }
              ELSE {})
        \cup (IF cur.Platform # q.Platform
              THEN { <<"platform", cur.Platform, q.Platform>> }
              ELSE {})
        \cup (IF cur.Logging # q.Logging
              THEN { <<"logging", cur.Logging, q.Logging>> }
              ELSE {}))

\* The differing fields of a query present on both sides (differ.go 284-299).
QueryChangedFields(cur, q) ==
    FieldMap(
        (IF normalizeWS(cur.Query) # normalizeWS(q.Query)
         THEN { <<"query", normalizeWS(cur.Query), normalizeWS(q.Query)>> }
         ELSE {})
        \cup (IF cur.Interval # q.Interval
              THEN { <<"interval", SprintUint(cur.Interval),
                       SprintUint(q.Interval)>> }
              ELSE {})
        \cup (IF cur.Platform # q.Platform
              THEN { <<"platform", cur.Platform, q.Platform>> }
              ELSE {})
        \cup (IF cur.Logging # q.Logging /\ q.Logging # <<>>
              THEN { <<"logging", cur.Logging, q.Logging>> }
              ELSE {}))

diffQueries(cur, prop) ==
    LET exists(q)   == HasName(cur, q.Name)
        isAdded(q)  == ~exists(q)
        isModified(q) ==
            /\ exists(q)
            /\ DOMAIN QueryChangedFields(ByName(cur, q.Name), q) # {}
        added(q)    == ResourceChange(q.Name, QueryAddedFields(q), 0, <<>>)
        modified(q) ==
            ResourceChange(q.Name,
                           QueryChangedFields(ByName(cur, q.Name), q), 0, <<>>)
        isDeleted(c) == ~HasName(prop, c.Name)
        deleted(c)  == ResourceChange(c.Name, NoFields, 0, <<>>)
    IN  [ Added    |-> MapSeq(SelectSeq(prop, isAdded), added),
          Modified |-> MapSeq(SelectSeq(prop, isModified), modified),
          Deleted  |-> MapSeq(SelectSeq(cur, isDeleted), deleted) ]

(***************************************************************************)
(* Profiles.                                                               *)
(***************************************************************************)
\* fmt.Sprintf("duplicate profile name %q derived from %q (conflicts with
\* another profile)", name, p.Path)
DuplicateProfileWarning(p) ==
    <<"duplicate profile name ", p.Name, " derived from ", p.Path,
      " (conflicts with another profile)">>

\* The fields of an added profile (differ.go 615-620).
ProfileAddedFields(p) ==
    FieldMap(
        { <<"platform", <<>>, p.Platform>> }
        \cup (IF p.Path # <<>> THEN { <<"path", <<>>, p.Path>> } ELSE {}))

\* A diffProfiles that warns about every profile whose name another
\* profile of the list has, the first one included.
diffProfilesWarningAll(cur, prop) ==
    LET isDup(i)   == \E j \in (1..Len(prop)) \ {i} : prop[j].Name = prop[i].Name
        warnAt(i)  == IF isDup(i)
                      THEN << DuplicateProfileWarning(prop[i]) >>
                      ELSE <<>>
        isAdded(p) == ~HasName(cur, p.Name)
        added(p)   == ResourceChange(p.Name, ProfileAddedFields(p), 0, <<>>)
        isDeleted(c) == ~HasName(prop, c.Name)
        deleted(c) == ResourceChange(c.Name, NoFields, 0, <<>>)
    IN  [ diff |->
            [ Added    |-> MapSeq(SelectSeq(prop, isAdded), added),
              Modified |-> <<>>,
              Deleted  |-> MapSeq(SelectSeq(cur, isDeleted), deleted) ],
          warnings |-> Flatten([ i \in 1..Len(prop) |-> warnAt(i) ]) ]

\* diffProfiles returns the ResourceDiff and the warnings.
diffProfiles(cur, prop) ==
    LET isDup(i)   == \E j \in 1..(i - 1) : prop[j].Name = prop[i].Name
        dups       == { i \in 1..Len(prop) : isDup(i) }
        warnAt(i)  == IF i \in dups
                      THEN << DuplicateProfileWarning(prop[i]) >>
                      ELSE <<>>
        isAdded(p) == ~HasName(cur, p.Name)
        added(p)   == ResourceChange(p.Name, ProfileAddedFields(p), 0, <<>>)
        isDeleted(c) == ~HasName(prop, c.Name)
        deleted(c) == ResourceChange(c.Name, NoFields, 0, <<>>)
    IN  [ diff |->
            [ Added    |-> MapSeq(SelectSeq(prop, isAdded), added),
              Modified |-> <<>>,
              Deleted  |-> MapSeq(SelectSeq(cur, isDeleted), deleted) ],
          warnings |-> Flatten([ i \in 1..Len(prop) |-> warnAt(i) ]) ]

(***************************************************************************)
(* Label validation.                                                       *)
(***************************************************************************)
\* changedNames collects all resource names from a ResourceDiff.
changedNames(d) ==
    { c.Name : c \in Range(d.Added) \cup Range(d.Modified) \cup Range(d.Deleted) }

\* LabelRef{Name, HostCount, ReferencedBy}
LabelRef(name, hostCount, referencedBy) ==
    [ Name |-> name, HostCount |-> hostCount, ReferencedBy |-> referencedBy ]

\* The label references of every policy, changed or not.
LabelReferencesOfAll(team, changed) ==
    LET refs(p) ==
            MapSeq(p.LabelsIncludeAny, LAMBDA n : <<n, p.Name>>)
            \o MapSeq(p.LabelsExcludeAny, LAMBDA n : <<n, p.Name>>)
    IN  Flatten(MapSeq(team.Policies, refs))

\* The calls checkLabel(name, p.Name) made by validateLabels, in order.
LabelReferences(team, changed) ==
    LET refs(p) ==
            IF p.Name \in changed
            THEN MapSeq(p.LabelsIncludeAny, LAMBDA n : <<n, p.Name>>)
                 \o MapSeq(p.LabelsExcludeAny, LAMBDA n : <<n, p.Name>>)
            ELSE <<>>
    IN  Flatten(MapSeq(team.Policies, refs))

\* validateLabels without the `seen` map: every reference is classified.
validateLabelsUnsuppressed(team, labels, changed) ==
    LET refs     == LabelReferences(team, changed)
        all      == [ i \in 1..Len(refs) |-> i ]
        valid(i)   == HasName(labels, refs[i][1])
        missing(i) == ~HasName(labels, refs[i][1])
        validRef(i) ==
            LabelRef(refs[i][1], ByName(labels, refs[i][1]).HostCount,
                     refs[i][2])
        missingRef(i) == LabelRef(refs[i][1], 0, refs[i][2])
    IN  [ Valid   |-> MapSeq(SelectSeq(all, valid), validRef),
          Missing |-> MapSeq(SelectSeq(all, missing), missingRef) ]

\* validateLabels checks labels referenced by changed policies only.
validateLabels(team, labels, changed) ==
    LET refs     == LabelReferences(team, changed)
        first(i) == \A j \in 1..(i - 1) : refs[j][1] # refs[i][1]
        firsts   == SelectSeq([ i \in 1..Len(refs) |-> i ], first)
        valid(i)   == HasName(labels, refs[i][1])
        missing(i) == ~HasName(labels, refs[i][1])
        validRef(i) ==
            LabelRef(refs[i][1], ByName(labels, refs[i][1]).HostCount,
                     refs[i][2])
        missingRef(i) == LabelRef(refs[i][1], 0, refs[i][2])
    IN  [ Valid   |-> MapSeq(SelectSeq(firsts, valid), validRef),
          Missing |-> MapSeq(SelectSeq(firsts, missing), missingRef) ]

(***************************************************************************)
(* Software.                                                               *)
(***************************************************************************)
\* A slice whose nil-ness the code tests: nil, or a (possibly empty) list.
NilSlice == [ nil |-> TRUE, elems |-> <<>> ]

Slice(elems) == [ nil |-> FALSE, elems |-> elems ]

\* The loop `for strings.HasPrefix(s, "../") { s = strings.TrimPrefix(s, "../") }`
RECURSIVE StripParents(_)
StripParents(s) ==
    IF HasPrefix(s, <<".", ".", "/">>)
    THEN StripParents(TrimPrefix(s, <<".", ".", "/">>))
    ELSE s

normalizeSoftwarePath(s) ==
    LET s1 == TrimSpace(ToLower(s))
    IN  IF s1 = <<>> THEN <<>>
        ELSE TrimPrefix(
                 StripParents(TrimPrefix(BackslashToSlash(s1), <<".", "/">>)),
                 <<"/">>)

SoftwareDir == <<"/", "s", "o", "f", "t", "w", "a", "r", "e", "/">>

inferSoftwarePathFromSource(source) ==
    LET src == BackslashToSlash(source)
        idx == Index(src, SoftwareDir)        \* 1-based
    IN  IF idx >= 1
        THEN TrimPrefix(SubSeq(src, idx + 1, Len(src)), <<"/">>)
        ELSE <<>>

\* insertion of x into a list sorted by Name, after every element that is
\* not greater than x (sort.Slice sorts fewer than 12 elements by insertion).
InsertByName(sorted, x) ==
    LET after == { i \in 1..Len(sorted) : StrLess(x.Name, sorted[i].Name) }
        k     == Len(sorted) - Cardinality(after)
    IN  SubSeq(sorted, 1, k) \o <<x>> \o SubSeq(sorted, k + 1, Len(sorted))

RECURSIVE SortByName(_)
SortByName(list) ==
    IF list = <<>> THEN <<>>
    ELSE InsertByName(SortByName(SubSeq(list, 1, Len(list) - 1)),
                      list[Len(list)])

\* A sortResourceChanges that leaves the lists as they were appended.
sortResourceChangesSkipped(rd) == rd

sortResourceChanges(rd) ==
    [ Added    |-> SortByName(rd.Added),
      Modified |-> SortByName(rd.Modified),
      Deleted  |-> SortByName(rd.Deleted) ]

\* The key under which diffSoftware files a remote package.
CurrentPackageKey(p) ==
    IF normalizeSoftwarePath(p.ReferencedYAMLPath) # <<>>
    THEN normalizeSoftwarePath(p.ReferencedYAMLPath)
    ELSE normalizeSoftwarePath(p.URL)

\* The key under which diffSoftware files a proposed package.
ProposedPackageKey(p) ==
    IF normalizeSoftwarePath(p.RefPath) # <<>>
    THEN normalizeSoftwarePath(p.RefPath)
    ELSE IF inferSoftwarePathFromSource(p.SourceFile) # <<>>
    THEN inferSoftwarePathFromSource(p.SourceFile)
    ELSE normalizeSoftwarePath(p.URL)

FleetAppKey(a) == normalizeSoftwarePath(a.Slug)

AppStoreKey(a) == TrimSpace(a.AppStoreID)

\* The keys of the map built by
\* `for _, x := range list { k := key(x); if k != "" { m[k] = x } }`
KeysOf(list, key(_)) == { key(list[i]) : i \in 1..Len(list) } \ { <<>> }

\* ... and its value under key k: the last element filed under k.
ValueOf(list, key(_), k) ==
    list[CHOOSE i \in 1..Len(list) :
            /\ key(list[i]) = k
            /\ \A j \in (i + 1)..Len(list) : key(list[j]) # k]

FleetAppPrefix == <<"f", "l", "e", "e", "t", " ", "a", "p", "p", " ">>

AppStorePrefix ==
    <<"a", "p", "p", " ", "s", "t", "o", "r", "e", " ", "a", "p", "p", " ">>

\* The fields of an added package (differ.go 350-356).
PackageAddedFields(p) ==
    FieldMap(
        { <<"url", <<>>, p.URL>>,
          <<"self_service", <<>>, SprintBool(p.SelfService)>> }
        \cup (IF p.HashSHA256 # <<>>
              THEN { <<"hash_sha256", <<>>, p.HashSHA256>> }
              ELSE {}))

\* The differing fields of a package present on both sides (differ.go 360-369).
PackageChangedFields(cur, p) ==
    FieldMap(
        (IF cur.URL # p.URL THEN { <<"url", cur.URL, p.URL>> } ELSE {})
        \cup (IF cur.HashSHA256 # p.HashSHA256
              THEN { <<"hash_sha256", cur.HashSHA256, p.HashSHA256>> }
              ELSE {})
        \cup (IF cur.SelfService # p.SelfService
              THEN { <<"self_service", SprintBool(cur.SelfService),
                       SprintBool(p.SelfService)>> }
              ELSE {}))

SelfServiceChanged(cur, a) ==
    FieldMap({ <<"self_service", SprintBool(cur.SelfService),
                 SprintBool(a.SelfService)>> })

\* The packages block of diffSoftware (differ.go 321-381), for one iteration
\* order po of proposedPkgs and one iteration order co of currentPkgs.
PackagesDiff(cur, prop, po, co) ==
    LET curKeys     == KeysOf(cur, CurrentPackageKey)
        propKeys    == KeysOf(prop, ProposedPackageKey)
        c(k)        == ValueOf(cur, CurrentPackageKey, k)
        p(k)        == ValueOf(prop, ProposedPackageKey, k)
        isAdded(k)  == k \notin curKeys
        isModified(k) ==
            k \in curKeys /\ DOMAIN PackageChangedFields(c(k), p(k)) # {}
        isDeleted(k) == k \notin propKeys
        added(k)    ==
            ResourceChange(normalizeSoftwarePath(k), PackageAddedFields(p(k)),
                           0, <<>>)
        modified(k) ==
            ResourceChange(normalizeSoftwarePath(k),
                           PackageChangedFields(c(k), p(k)), 0, <<>>)
        deleted(k)  ==
            ResourceChange(normalizeSoftwarePath(k), NoFields, 0, <<>>)
    IN  [ Added    |-> MapSeq(SelectSeq(po, isAdded), added),
          Modified |-> MapSeq(SelectSeq(po, isModified), modified),
          Deleted  |-> MapSeq(SelectSeq(co, isDeleted), deleted) ]

\* The fleet-maintained apps block of diffSoftware (differ.go 383-429).
FleetAppsDiff(cur, prop, po, co) ==
    LET curKeys     == KeysOf(cur, FleetAppKey)
        propKeys    == KeysOf(prop, FleetAppKey)
        c(k)        == ValueOf(cur, FleetAppKey, k)
        p(k)        == ValueOf(prop, FleetAppKey, k)
        isAdded(k)  == k \notin curKeys
        isModified(k) ==
            k \in curKeys /\ c(k).SelfService # p(k).SelfService
        isDeleted(k) == k \notin propKeys
        added(k)    ==
            ResourceChange(FleetAppPrefix \o k,
                FieldMap({ <<"slug", <<>>, p(k).Slug>>,
                           <<"self_service", <<>>,
                             SprintBool(p(k).SelfService)>> }),
                0, <<>>)
        modified(k) ==
            ResourceChange(FleetAppPrefix \o k,
                           SelfServiceChanged(c(k), p(k)), 0, <<>>)
        deleted(k)  == ResourceChange(FleetAppPrefix \o k, NoFields, 0, <<>>)
    IN  [ Added    |-> MapSeq(SelectSeq(po, isAdded), added),
          Modified |-> MapSeq(SelectSeq(po, isModified), modified),
          Deleted  |-> MapSeq(SelectSeq(co, isDeleted), deleted) ]

\* The App Store apps block of diffSoftware (differ.go 431-475).
AppStoreAppsDiff(cur, prop, po, co) ==
    LET curKeys     == KeysOf(cur, AppStoreKey)
        propKeys    == KeysOf(prop, AppStoreKey)
        c(k)        == ValueOf(cur, AppStoreKey, k)
        p(k)        == ValueOf(prop, AppStoreKey, k)
        isAdded(k)  == k \notin curKeys
        isModified(k) ==
            k \in curKeys /\ c(k).SelfService # p(k).SelfService
        isDeleted(k) == k \notin propKeys
        added(k)    ==
            ResourceChange(AppStorePrefix \o k,
                FieldMap({ <<"app_store_id", <<>>, p(k).AppStoreID>>,
                           <<"self_service", <<>>,
                             SprintBool(p(k).SelfService)>> }),
                0, <<>>)
        modified(k) ==
            ResourceChange(AppStorePrefix \o k,
                           SelfServiceChanged(c(k), p(k)), 0, <<>>)
        deleted(k)  == ResourceChange(AppStorePrefix \o k, NoFields, 0, <<>>)
    IN  [ Added    |-> MapSeq(SelectSeq(po, isAdded), added),
          Modified |-> MapSeq(SelectSeq(po, isModified), modified),
          Deleted  |-> MapSeq(SelectSeq(co, isDeleted), deleted) ]

\* rd after the three blocks have appended to it, in this order.
AppendDiffs(a, b, c) ==
    [ Added    |-> a.Added \o b.Added \o c.Added,
      Modified |-> a.Modified \o b.Modified \o c.Modified,
      Deleted  |-> a.Deleted \o b.Deleted \o c.Deleted ]

\* diffSoftware(current, proposed): the results it can return, one for each
\* combination of iteration orders of its six maps.  current.FleetMaintained
\* is a slice that may be nil; ranging over nil ranges over nothing.
diffSoftware(cur, prop) ==
    LET pkgs  == { PackagesDiff(cur.Packages, prop.Packages, po, co) :
                     po \in Perms(KeysOf(prop.Packages, ProposedPackageKey)),
                     co \in Perms(KeysOf(cur.Packages, CurrentPackageKey)) }
        fleet == { FleetAppsDiff(cur.FleetMaintained.elems,
                                 prop.FleetMaintained, po, co) :
                     po \in Perms(KeysOf(prop.FleetMaintained, FleetAppKey)),
                     co \in Perms(KeysOf(cur.FleetMaintained.elems,
                                         FleetAppKey)) }
        apps  == { AppStoreAppsDiff(cur.AppStoreApps, prop.AppStoreApps,
                                    po, co) :
                     po \in Perms(KeysOf(prop.AppStoreApps, AppStoreKey)),
                     co \in Perms(KeysOf(cur.AppStoreApps, AppStoreKey)) }
    IN  { sortResourceChanges(AppendDiffs(a, b, c)) :
              a \in pkgs, b \in fleet, c \in apps }

(***************************************************************************)
(* Inference of fleet-maintained apps from software titles.                *)
(***************************************************************************)
Macos == <<"m", "a", "c", "o", "s">>

Darwin == <<"d", "a", "r", "w", "i", "n">>

AppsSource == <<"a", "p", "p", "s">>

normalizeFleetPlatform(platform) ==
    LET p == TrimSpace(ToLower(platform))
    IN  IF p = Macos THEN Darwin ELSE p

fleetCatalogKey(name, platform) ==
    LET n == TrimSpace(ToLower(name))
        p == normalizeFleetPlatform(platform)
    IN  IF n = <<>> \/ p = <<>> THEN <<>> ELSE n \o <<"|">> \o p

\* catalogByNamePlatform[key]: the catalog entries filed under key, in order.
CatalogMatches(catalog, key) ==
    IF key = <<>> THEN <<>>
    ELSE SelectSeq(catalog,
                   LAMBDA app : fleetCatalogKey(app.Name, app.Platform) = key)

\* The titles that would reach `inferred[slug] = ...` if the source of a
\* title were not looked at.
InferableTitlesOfAnySource(team, catalog) ==
    LET customPackageURLs ==
            { normalizeSoftwarePath(p.URL) :
                  p \in Range(team.Software.Packages) } \ { <<>> }
        ok(title) ==
            /\ ~title.AppStoreApp
            /\ ~title.SoftwarePackage.nil
            /\ normalizeSoftwarePath(title.SoftwarePackage.PackageURL)
                   \notin customPackageURLs
            /\ LET matches ==
                       CatalogMatches(catalog,
                           fleetCatalogKey(title.Name,
                                           title.SoftwarePackage.Platform))
               IN  /\ Len(matches) = 1
                   /\ normalizeSoftwarePath(matches[1].Slug) # <<>>
    IN  SelectSeq(team.SoftwareTitles, ok)

\* The titles that reach `inferred[slug] = ...` in inferFleetMaintainedApps
\* (differ.go 534-559).
InferableTitles(team, catalog) ==
    LET customPackageURLs ==
            { normalizeSoftwarePath(p.URL) :
                  p \in Range(team.Software.Packages) } \ { <<>> }
        ok(title) ==
            /\ EqualFold(TrimSpace(title.Source), AppsSource)
            /\ ~title.AppStoreApp
            /\ ~title.SoftwarePackage.nil
            /\ normalizeSoftwarePath(title.SoftwarePackage.PackageURL)
                   \notin customPackageURLs
            /\ LET matches ==
                       CatalogMatches(catalog,
                           fleetCatalogKey(title.Name,
                                           title.SoftwarePackage.Platform))
               IN  /\ Len(matches) = 1
                   /\ normalizeSoftwarePath(matches[1].Slug) # <<>>
    IN  SelectSeq(team.SoftwareTitles, ok)

\* The slug a title that passed the filters is inferred as.
InferredSlug(title, catalog) ==
    normalizeSoftwarePath(
        CatalogMatches(catalog,
            fleetCatalogKey(title.Name,
                            title.SoftwarePackage.Platform))[1].Slug)

\* An inference that takes every app of the catalog as installed.
inferFleetMaintainedAppsFromCatalog(team, catalog) ==
    { Slice([ i \in 1..Len(catalog) |->
                [ Slug |-> normalizeSoftwarePath(catalog[i].Slug),
                  SelfService |-> FALSE ] ]) }

\* inferFleetMaintainedApps(team, catalog): the slices it can return, one
\* for each iteration order of the map `inferred`.
inferFleetMaintainedApps(team, catalog) ==
    IF Len(team.SoftwareTitles) = 0 \/ Len(catalog) = 0
    THEN { NilSlice }
    ELSE
        LET titles == InferableTitles(team, catalog)
            slugOf(t) == InferredSlug(t, catalog)
            slugs  == { slugOf(titles[i]) : i \in 1..Len(titles) }
            app(slug) ==
                [ Slug |-> slug,
                  SelfService |->
                      ValueOf(titles, slugOf, slug).SoftwarePackage.SelfService ]
        IN  IF slugs = {} THEN { NilSlice }
            ELSE { Slice(MapSeq(order, app)) : order \in Perms(slugs) }

(***************************************************************************)
(* Global config.  A value of type `any` is a tagged tree: a string, a     *)
(* bool, an unsigned number, nil, a list of values, or a map[string]any.   *)
(***************************************************************************)
StringValue(str) == [ kind |-> "string", v |-> str ]

BoolValue(b) == [ kind |-> "bool", v |-> b ]

UintValue(n) == [ kind |-> "uint", v |-> n ]

NilValue == [ kind |-> "nil", v |-> <<>> ]

ListValue(elems) == [ kind |-> "list", v |-> elems ]

MapValue(m) == [ kind |-> "map", v |-> m ]

\* The strings of a set, ascending (fmt prints a map with its keys sorted).
RECURSIVE SortedStrs(_)
SortedStrs(S) ==
    IF S = {} THEN <<>>
    ELSE LET least == CHOOSE x \in S : \A y \in S \ {x} : StrLess(x, y)
         IN  <<least>> \o SortedStrs(S \ {least})

\* fmt.Sprint(v)
RECURSIVE Sprint(_)
Sprint(val) ==
    CASE val.kind = "string" -> val.v
      [] val.kind = "bool"   -> SprintBool(val.v)
      [] val.kind = "uint"   -> SprintUint(val.v)
      [] val.kind = "nil"    -> <<"<", "n", "i", "l", ">">>
      [] val.kind = "list"   ->
            <<"[">> \o Join(MapSeq(val.v, Sprint), <<" ">>) \o <<"]">>
      [] val.kind = "map"    ->
            <<"m", "a", "p", "[">>
            \o Join(MapSeq(SortedStrs(DOMAIN val.v),
                           LAMBDA k : k \o <<":">> \o Sprint(val.v[k])),
                    <<" ">>)
            \o <<"]">>

\* A containsEnvVar that looks at the first character only.
containsEnvVarAtStart(str) == str # <<>> /\ str[1] = "$"

\* containsEnvVar returns true if the string contains a $.
containsEnvVar(str) == ContainsChar(str, "$")

\* flattenMap(m, prefix, fn): the sequences of calls fn(key, val) it can
\* make, one for each iteration order of m and of the maps nested in it.
RECURSIVE flattenMap(_, _), FlattenInOrder(_, _, _)
flattenMap(m, prefix) ==
    UNION { FlattenInOrder(m, prefix, order) : order \in Perms(DOMAIN m) }

FlattenInOrder(m, prefix, order) ==
    IF order = <<>> THEN { <<>> }
    ELSE
        LET k       == order[1]
            fullKey == IF prefix # <<>> THEN prefix \o <<".">> \o k ELSE k
            first   == IF m[k].kind = "map"
                       THEN flattenMap(m[k].v, fullKey)
                       ELSE { << <<fullKey, Sprint(m[k])>> >> }
        IN  { a \o b : a \in first,
                       b \in FlattenInOrder(m, prefix, Tail(order)) }

\* strings.Split(s, ".")
RECURSIVE SplitDots(_)
SplitDots(str) ==
    LET i == Index(str, <<".">>)
    IN  IF i = 0 THEN << str >>
        ELSE << SubSeq(str, 1, i - 1) >>
             \o SplitDots(SubSeq(str, i + 1, Len(str)))

\* The loop of getNestedValue over parts, from map m on.
RECURSIVE NestedLookup(_, _)
NestedLookup(m, parts) ==
    IF parts[1] \notin DOMAIN m THEN <<>>
    ELSE IF Len(parts) = 1 THEN Sprint(m[parts[1]])
    ELSE IF m[parts[1]].kind = "map"
    THEN NestedLookup(m[parts[1]].v, Tail(parts))
    ELSE <<>>

\* getNestedValue retrieves a value from a nested map using a dot-separated key.
getNestedValue(m, key) == NestedLookup(m, SplitDots(key))

OrgSettings == <<"o", "r", "g", "_", "s", "e", "t", "t", "i", "n", "g", "s">>

AgentOptions ==
    <<"a", "g", "e", "n", "t", "_", "o", "p", "t", "i", "o", "n", "s">>

Controls == <<"c", "o", "n", "t", "r", "o", "l", "s">>

\* serverOnlyKeys are keys returned by the Fleet API that don't exist in YAML.
serverOnlyKeys ==
    { <<"l", "i", "c", "e", "n", "s", "e">>,
      <<"l", "o", "g", "g", "i", "n", "g">>,
      <<"u", "p", "d", "a", "t", "e", "_", "i", "n", "t", "e", "r", "v", "a", "l">>,
      <<"v", "u", "l", "n", "e", "r", "a", "b", "i", "l", "i", "t", "i", "e", "s">>,
      <<"s", "a", "n", "d", "b", "o", "x", "_", "e", "n", "a", "b", "l", "e", "d">>,
      <<"s", "e", "r", "v", "e", "r", "_", "s", "e", "t", "t", "i", "n", "g", "s">> }

\* ConfigChange{Section, Key, Old, New}
ConfigChange(section, key, old, new) ==
    [ Section |-> section, Key |-> key, Old |-> old, New |-> new ]

\* A section of ParsedGlobal: a map that may be nil.
NilMap == [ nil |-> TRUE, m |-> <<>> ]

SomeMap(m) == [ nil |-> FALSE, m |-> m ]

\* The sections map of diffConfig (differ.go 716-720).
Sections(global) ==
    [ s \in { OrgSettings, AgentOptions, Controls } |->
        CASE s = OrgSettings  -> global.OrgSettings
          [] s = AgentOptions -> global.AgentOptions
          [] s = Controls     -> global.Controls ]

\* apiSection for a section (differ.go 730-744): where the section lives in
\* the API response; a nil map when it is not there.
ApiSection(apiConfig, section) ==
    IF section = AgentOptions
    THEN IF AgentOptions \in DOMAIN apiConfig
            /\ apiConfig[AgentOptions].kind = "map"
         THEN SomeMap(apiConfig[AgentOptions].v)
         ELSE NilMap
    ELSE SomeMap(apiConfig)

\* The changes one call fn(key, val) of the flattening appends
\* (differ.go 748-756 and 761-774).
LeafChanges(section, apiSection, call) ==
    LET key == call[1]
        val == call[2]
    IN  IF containsEnvVar(val) THEN <<>>
        ELSE IF apiSection.nil
        THEN << ConfigChange(section, key, <<>>, val) >>
        ELSE IF getNestedValue(apiSection.m, key) # val
        THEN << ConfigChange(section, key,
                             getNestedValue(apiSection.m, key), val) >>
        ELSE <<>>

\* The changes one iteration of the loop over sections can append.
SectionChanges(apiConfig, section, proposedMap) ==
    IF proposedMap.nil THEN { <<>> }
    ELSE { Flatten(MapSeq(calls_,
               LAMBDA call :
                   LeafChanges(section, ApiSection(apiConfig, section), call)))
           : calls_ \in flattenMap(proposedMap.m, <<>>) }

\* The loop over sections, taken in the given order.
RECURSIVE ChangesInOrder(_, _, _)
ChangesInOrder(apiConfig, sections, order) ==
    IF order = <<>> THEN { <<>> }
    ELSE { a \o b :
             a \in SectionChanges(apiConfig, order[1], sections[order[1]]),
             b \in ChangesInOrder(apiConfig, sections, Tail(order)) }

\* diffConfig(apiConfig, proposed): the change lists it can return, one for
\* each iteration order of the sections map and of the flattened maps.
diffConfig(apiConfig, global) ==
    UNION { ChangesInOrder(apiConfig, Sections(global), order) :
                order \in Perms(DOMAIN Sections(global)) }

(***************************************************************************)
(* Diff.                                                                   *)
(***************************************************************************)
NoTeam == <<"N", "o", " ", "t", "e", "a", "m">>

GlobalTeam == <<"(global)">>

\* fmt.Sprintf("%d policies, %d queries configured (no API diff available
\* for \"No team\")", pCount, qCount): the message, in its parts.
NoTeamNote(pCount, qCount) ==
    << SprintUint(pCount), " policies, ", SprintUint(qCount),
       " queries configured (no API diff available for \"No team\")" >>

\* fmt.Sprintf("info: team %q does not exist in Fleet yet (will be
\* created)", name): the message, in its parts.
NewTeamInfo(name) ==
    << "info: team ", name, " does not exist in Fleet yet (will be created)" >>

\* The same branch with the reserved name compared exactly, not up to
\* letter case.
AbsentTeamResultExactName(proposedTeam) ==
    IF proposedTeam.Name = NoTeam
    THEN [ DiffResult(proposedTeam.Name) EXCEPT
             !.Errors =
                 IF Len(proposedTeam.Policies) > 0
                    \/ Len(proposedTeam.Queries) > 0
                 THEN << NoTeamNote(Len(proposedTeam.Policies),
                                    Len(proposedTeam.Queries)) >>
                 ELSE <<>> ]
    ELSE [ DiffResult(proposedTeam.Name) EXCEPT
             !.Policies.Added =
                 MapSeq(proposedTeam.Policies,
                        LAMBDA p : ResourceChange(p.Name, NoFields, 0, <<>>)),
             !.Queries.Added =
                 MapSeq(proposedTeam.Queries,
                        LAMBDA q : ResourceChange(q.Name, NoFields, 0, <<>>)),
             !.Errors = << NewTeamInfo(proposedTeam.Name) >> ]

\* The branch of Diff for a proposed team that is not in current.Teams
\* (differ.go 132-154), before the labels are validated.
AbsentTeamResult(proposedTeam) ==
    IF EqualFold(proposedTeam.Name, NoTeam)
    THEN [ DiffResult(proposedTeam.Name) EXCEPT
             !.Errors =
                 IF Len(proposedTeam.Policies) > 0
                    \/ Len(proposedTeam.Queries) > 0
                 THEN << NoTeamNote(Len(proposedTeam.Policies),
                                    Len(proposedTeam.Queries)) >>
                 ELSE <<>> ]
    ELSE [ DiffResult(proposedTeam.Name) EXCEPT
             !.Policies.Added =
                 MapSeq(proposedTeam.Policies,
                        LAMBDA p : ResourceChange(p.Name, NoFields, 0, <<>>)),
             !.Queries.Added =
                 MapSeq(proposedTeam.Queries,
                        LAMBDA q : ResourceChange(q.Name, NoFields, 0, <<>>)),
             !.Errors = << NewTeamInfo(proposedTeam.Name) >> ]

\* currentSoftware (differ.go 158-169): the remote software of the team, its
\* fleet-maintained apps inferred when the API gave null and the YAML
\* declares some.  One value for each slice the inference can return.
CurrentSoftware(currentTeam, proposedTeam, catalog) ==
    IF currentTeam.Software.FleetMaintained.nil
       /\ Len(proposedTeam.Software.FleetMaintained) > 0
    THEN { [ currentTeam.Software EXCEPT !.FleetMaintained = inferred ] :
               inferred \in inferFleetMaintainedApps(currentTeam, catalog) }
    ELSE { currentTeam.Software }

\* The branch of Diff for a proposed team that is in current.Teams
\* (differ.go 156-174), before the labels are validated.
PresentTeamResults(currentTeam, proposedTeam, catalog) ==
    LET profiles == diffProfiles(currentTeam.Profiles, proposedTeam.Profiles)
    IN  { [ DiffResult(proposedTeam.Name) EXCEPT
              !.Policies = diffPolicies(currentTeam.Policies,
                                        proposedTeam.Policies),
              !.Queries  = diffQueries(currentTeam.Queries,
                                       proposedTeam.Queries),
              !.Software = software,
              !.Profiles = profiles.diff,
              !.Errors   = profiles.warnings ] :
          software \in UNION { diffSoftware(cs, proposedTeam.Software) :
              cs \in CurrentSoftware(currentTeam, proposedTeam, catalog) } }

\* An iteration that diffs the proposed team against the last team of
\* current.Teams, whatever its name.
TeamResultsAgainstLast(cur, proposedTeam) ==
    LET withLabels(r) ==
            [ r EXCEPT !.Labels =
                validateLabels(proposedTeam, cur.Labels,
                               changedNames(r.Policies)) ]
    IN  IF HasName(cur.Teams, proposedTeam.Name)
        THEN { withLabels(r) :
                 r \in PresentTeamResults(cur.Teams[Len(cur.Teams)],
                                          proposedTeam,
                                          cur.FleetMaintainedCatalog) }
        ELSE { withLabels(AbsentTeamResult(proposedTeam)) }

\* One iteration of the loop over proposed.Teams (differ.go 129-178): the
\* results it can append for a team that passes the filter.
TeamResults(cur, proposedTeam) ==
    LET withLabels(r) ==
            [ r EXCEPT !.Labels =
                validateLabels(proposedTeam, cur.Labels,
                               changedNames(r.Policies)) ]
    IN  IF HasName(cur.Teams, proposedTeam.Name)
        THEN { withLabels(r) :
                 r \in PresentTeamResults(ByName(cur.Teams, proposedTeam.Name),
                                          proposedTeam,
                                          cur.FleetMaintainedCatalog) }
        ELSE { withLabels(AbsentTeamResult(proposedTeam)) }

\* The global result (differ.go 100-115).
GlobalResults(cur, global) ==
    LET base ==
            [ DiffResult(GlobalTeam) EXCEPT
                !.Policies = diffPolicies(cur.GlobalPolicies, global.Policies),
                !.Queries  = diffQueries(cur.GlobalQueries, global.Queries) ]
    IN  IF cur.Config.nil THEN { base }
        ELSE { [ base EXCEPT !.Config = changes ] :
                   changes \in diffConfig(cur.Config.m, global) }

\* The loop over proposed.Teams, from team i on.
RECURSIVE TeamsFrom(_, _, _, _)
TeamsFrom(cur, teams, filter, i) ==
    IF i > Len(teams) THEN { <<>> }
    ELSE IF filter # <<>> /\ ~EqualFold(teams[i].Name, filter)
    THEN TeamsFrom(cur, teams, filter, i + 1)
    ELSE { <<r>> \o rest : r \in TeamResults(cur, teams[i]),
                           rest \in TeamsFrom(cur, teams, filter, i + 1) }

\* Diff with the global result built whenever a global file was parsed,
\* filter or not.
DiffGlobalUnderFilter(cur, prop, filter) ==
    LET globals == IF ~prop.Global.nil
                   THEN { <<g>> : g \in GlobalResults(cur, prop.Global) }
                   ELSE { <<>> }
    IN  { g \o t : g \in globals,
                   t \in TeamsFrom(cur, prop.Teams, filter, 1) }

\* Diff(current, proposed, teamFilter): the result lists it can return.
Diff(cur, prop, filter) ==
    LET globals == IF ~prop.Global.nil /\ filter = <<>>
                   THEN { <<g>> : g \in GlobalResults(cur, prop.Global) }
                   ELSE { <<>> }
    IN  { g \o t : g \in globals,
                   t \in TeamsFrom(cur, prop.Teams, filter, 1) }

(***************************************************************************)
(* Inputs.  The values Diff is called on are drawn from the scenario sets  *)
(* below: each varies one part of the two inputs over every combination of *)
(* its menu and leaves the rest empty.                                     *)
(***************************************************************************)
NameA == <<"a">>

NameB == <<"b">>

TeamT == <<"t">>

Windows == <<"w", "i", "n", "d", "o", "w", "s">>

\* "x y", and the same text with other whitespace; "x z" differs in a word.
TextXY == <<"x", " ", "y">>

TextXYSpaced == <<" ", "x", " ", "\n", "y", "\n">>

TextXZ == <<"x", " ", "z">>

Texts == { <<>>, TextXY, TextXYSpaced, TextXZ }

\* api.Policy
Policy(name, query, description, resolution, platform, critical, passing, failing) ==
    [ Name |-> name, Query |-> query, Description |-> description,
      Resolution |-> resolution, Platform |-> platform, Critical |-> critical,
      PassingHostCount |-> passing, FailingHostCount |-> failing ]

\* parser.ParsedPolicy
ParsedPolicy(name, query, description, resolution, platform, critical, include, exclude) ==
    [ Name |-> name, Query |-> query, Description |-> description,
      Resolution |-> resolution, Platform |-> platform, Critical |-> critical,
      LabelsIncludeAny |-> include, LabelsExcludeAny |-> exclude ]

\* api.Query and parser.ParsedQuery
Query(name, query, interval, platform, logging) ==
    [ Name |-> name, Query |-> query, Interval |-> interval,
      Platform |-> platform, Logging |-> logging ]

\* api.Profile
Profile(name, platform) == [ Name |-> name, Platform |-> platform ]

\* parser.ParsedProfile
ParsedProfile(name, path, platform) ==
    [ Name |-> name, Path |-> path, Platform |-> platform ]

\* api.Label
Label(name, hostCount) == [ Name |-> name, HostCount |-> hostCount ]

\* api.TeamSoftware with nothing in it (fleet_maintained_apps: []).
NoSoftware ==
    [ Packages |-> <<>>, FleetMaintained |-> Slice(<<>>), AppStoreApps |-> <<>> ]

\* parser.ParsedSoftware with nothing in it.
NoParsedSoftware ==
    [ Packages |-> <<>>, FleetMaintained |-> <<>>, AppStoreApps |-> <<>> ]

\* api.Team
Team(name, policies, queries, software, profiles, titles) ==
    [ Name |-> name, Policies |-> policies, Queries |-> queries,
      Software |-> software, Profiles |-> profiles,
      SoftwareTitles |-> titles ]

\* parser.ParsedTeam
ParsedTeam(name, policies, queries, software, profiles) ==
    [ Name |-> name, Policies |-> policies, Queries |-> queries,
      Software |-> software, Profiles |-> profiles ]

\* proposed.Global == nil
NoGlobal ==
    [ nil |-> TRUE, OrgSettings |-> NilMap, AgentOptions |-> NilMap,
      Controls |-> NilMap, Policies |-> <<>>, Queries |-> <<>> ]

\* *parser.ParsedGlobal
Global(org, agent, controls, policies, queries) ==
    [ nil |-> FALSE, OrgSettings |-> org, AgentOptions |-> agent,
      Controls |-> controls, Policies |-> policies, Queries |-> queries ]

\* api.FleetState
FleetState(teams, labels, catalog, config, policies, queries) ==
    [ Teams |-> teams, Labels |-> labels, FleetMaintainedCatalog |-> catalog,
      Config |-> config, GlobalPolicies |-> policies,
      GlobalQueries |-> queries ]

\* parser.ParsedRepo
ParsedRepo(teams, global) == [ Teams |-> teams, Global |-> global ]

\* One call of Diff.
Scenario(cur, prop, filter) ==
    [ current |-> cur, proposed |-> prop, filter |-> filter ]

\* Team t on both sides, differing in the given parts only.
OneTeam(rPolicies, rQueries, rSoftware, rProfiles, rTitles, labels, catalog, pPolicies, pQueries, pSoftware, pProfiles) ==
    Scenario(
        FleetState(<< Team(TeamT, rPolicies, rQueries, rSoftware, rProfiles,
                           rTitles) >>,
                   labels, catalog, NilMap, <<>>, <<>>),
        ParsedRepo(<< ParsedTeam(TeamT, pPolicies, pQueries, pSoftware,
                                 pProfiles) >>, NoGlobal),
        <<>>)

\* ---- policies: which names are on which side, in which order
KeyedPolicies ==
    { Policy(nq[1], nq[2], <<>>, <<>>, Darwin, FALSE, 0, 0) :
          nq \in { <<NameA, TextXY>>, <<NameA, TextXZ>>, <<NameB, TextXY>> } }

KeyedParsedPolicies ==
    { ParsedPolicy(n, q, <<>>, <<>>, Darwin, FALSE, <<>>, <<>>) :
          n \in { NameA, NameB }, q \in { TextXY, TextXZ } }

PolicyKeyScenarios ==
    { OneTeam(r, <<>>, NoSoftware, <<>>, <<>>, <<>>, <<>>,
              p, <<>>, NoParsedSoftware, <<>>) :
          r \in SeqsUpTo(KeyedPolicies, MaxItems),
          p \in SeqsUpTo(KeyedParsedPolicies, MaxItems) }

\* ---- policies: one policy on both sides, every free-text field varied
PolicyTextScenarios ==
    { OneTeam(<< Policy(NameA, rq, rd, rr, Darwin, FALSE, 0, 0) >>,
              <<>>, NoSoftware, <<>>, <<>>, <<>>, <<>>,
              << ParsedPolicy(NameA, pq, pd, pr, Darwin, FALSE, <<>>, <<>>) >>,
              <<>>, NoParsedSoftware, <<>>) :
          rq \in Texts, rd \in Texts, rr \in Texts,
          pq \in Texts, pd \in Texts, pr \in Texts }
    \cup
    \* a policy and a query on the proposed side only
    { OneTeam(<<>>, <<>>, NoSoftware, <<>>, <<>>, <<>>, <<>>,
              << ParsedPolicy(NameA, pq, pd, pr, Darwin, FALSE, <<>>, <<>>) >>,
              << Query(NameA, pq, 0, Darwin, <<>>) >>, NoParsedSoftware, <<>>) :
          pq \in { TextXY, TextXYSpaced }, pd \in { <<>>, TextXYSpaced },
          pr \in { <<>>, TextXYSpaced } }

\* ---- policies: one policy on both sides, platform and critical varied
PolicyFlagScenarios ==
    { OneTeam(<< Policy(NameA, TextXY, <<>>, <<>>, rp, rc, 0, 0) >>,
              <<>>, NoSoftware, <<>>, <<>>, <<>>, <<>>,
              << ParsedPolicy(NameA, pq, <<>>, <<>>, pp, pc, <<>>, <<>>) >>,
              <<>>, NoParsedSoftware, <<>>) :
          rp \in { Darwin, Windows }, rc \in BOOLEAN,
          pq \in { TextXY, TextXYSpaced },
          pp \in { Darwin, Windows }, pc \in BOOLEAN }

\* ---- policies: remote policies with host counts, kept or dropped
CountedPolicies ==
    { Policy(n, TextXY, <<>>, <<>>, Darwin, FALSE, passing, failing) :
          n \in { NameA, NameB },
          passing \in { 0, MaxHosts }, failing \in { 0, MaxHosts } }

PolicyHostScenarios ==
    { OneTeam(r, <<>>, NoSoftware, <<>>, <<>>, <<>>, <<>>,
              p, <<>>, NoParsedSoftware, <<>>) :
          r \in SeqsUpTo(CountedPolicies, MaxItems),
          p \in { <<>>,
                  << ParsedPolicy(NameA, TextXZ, <<>>, <<>>, Darwin, FALSE,
                                  <<>>, <<>>) >> } }

\* ---- queries: which names are on which side, in which order
KeyedQueries ==
    { Query(n, q, 0, Darwin, <<>>) :
          n \in { NameA, NameB }, q \in { TextXY, TextXZ } }

QueryKeyScenarios ==
    { OneTeam(<<>>, r, NoSoftware, <<>>, <<>>, <<>>, <<>>,
              <<>>, p, NoParsedSoftware, <<>>) :
          r \in SeqsUpTo(KeyedQueries \ { Query(NameB, TextXZ, 0, Darwin, <<>>) },
                         MaxItems),
          p \in SeqsUpTo(KeyedQueries, MaxItems) }

Snapshot == <<"s", "n", "a", "p", "s", "h", "o", "t">>

\* ---- queries: one query on both sides, every compared field varied
QueryFieldScenarios ==
    { OneTeam(<<>>, << Query(NameA, rq, ri, rp, rl) >>, NoSoftware, <<>>,
              <<>>, <<>>, <<>>,
              <<>>, << Query(NameA, pq, pi, pp, pl) >>, NoParsedSoftware,
              <<>>) :
          rq \in { TextXY, TextXYSpaced }, ri \in { 0, 10 },
          rp \in { Darwin, Windows }, rl \in { <<>>, Snapshot },
          pq \in Texts, pi \in { 0, 10 },
          pp \in { Darwin, Windows }, pl \in { <<>>, Snapshot } }

\* ---- profiles
ProfilePath == <<"p", ".", "x", "m", "l">>

ProfileScenarios ==
    { OneTeam(<<>>, <<>>, NoSoftware, r, <<>>, <<>>, <<>>,
              <<>>, <<>>, NoParsedSoftware, p) :
          r \in SeqsUpTo({ Profile(n, Darwin) : n \in { NameA, NameB } },
                         MaxItems),
          p \in SeqsUpTo({ ParsedProfile(n, path, Darwin) :
                               n \in { NameA, NameB },
                               path \in { <<>>, ProfilePath } },
                         MaxItems) }

\* ---- labels referenced by policies
LabelL == <<"l">>

LabelM == <<"m">>

LabelledPolicies ==
    { ParsedPolicy(n, TextXY, <<>>, <<>>, Darwin, FALSE, ie[1], ie[2]) :
          n \in { NameA, NameB },
          ie \in { << <<>>, <<>> >>,
                   << <<LabelL, LabelM>>, <<LabelL>> >>,
                   << <<>>, <<LabelM>> >> } }

LabelScenarios ==
    { OneTeam(r, <<>>, NoSoftware, <<>>, <<>>, labels, <<>>,
              p, <<>>, NoParsedSoftware, <<>>) :
          r \in { <<>>,
                  << Policy(NameA, TextXY, <<>>, <<>>, Darwin, FALSE, 0, 0) >>,
                  << Policy(NameA, TextXZ, <<>>, <<>>, Darwin, FALSE, 0, 0),
                     Policy(NameB, TextXY, <<>>, <<>>, Darwin, FALSE, 0, 0) >> },
          labels \in { <<>>, << Label(LabelL, 1) >>,
                       << Label(LabelL, 0), Label(LabelL, 1),
                          Label(LabelM, 0) >> },
          p \in SeqsUpTo(LabelledPolicies, MaxItems) }

\* ---- software packages
\* api.TeamSoftwarePackage
Package(path, url, hash, selfService) ==
    [ ReferencedYAMLPath |-> path, URL |-> url, HashSHA256 |-> hash,
      SelfService |-> selfService ]

\* parser.ParsedSoftwarePackage
ParsedPackage(refPath, sourceFile, url, hash, selfService) ==
    [ RefPath |-> refPath, SourceFile |-> sourceFile, URL |-> url,
      HashSHA256 |-> hash, SelfService |-> selfService ]

UrlU == <<"u">>

UrlV == <<"v">>

HashH == <<"h">>

PathSA == <<"s", "/", "a">>

PathSoftwareA == <<"s", "o", "f", "t", "w", "a", "r", "e", "/", "a">>

RemotePackage(path, url) == Package(path, url, <<>>, FALSE)

RemotePackageLists ==
    { <<>>,
      << RemotePackage(PathSA, UrlU) >>,
      << RemotePackage(<<".", "/", "S", "/", "b">>, UrlU),
         RemotePackage(PathSA, UrlU) >>,
      << RemotePackage(PathSA, UrlU), RemotePackage(PathSA, UrlV) >>,
      << RemotePackage(PathSoftwareA, UrlU) >>,
      << RemotePackage(<<".", ".", "/", ".", "/", "s", "/", "a">>, UrlU) >>,
      << RemotePackage(<<>>, UrlU), RemotePackage(<<>>, <<>>) >>,
      << RemotePackage(<<>>, UrlV), RemotePackage(<<"s", "/", "b">>, UrlU) >> }

ProposedPackages ==
    { ParsedPackage(rsu[1], rsu[2], rsu[3], <<>>, FALSE) :
          rsu \in { << PathSA, <<>>, UrlU >>,
                    << <<"/", "S", "/", "A">>, <<>>, UrlV >>,
                    << <<".", ".", "\\", "s", "\\", "B">>, <<>>, UrlU >>,
                    << <<>>, <<"/", "r">> \o SoftwareDir \o <<"a">>, UrlU >>,
                    << <<>>, <<"/", "r">> \o SoftwareDir \o <<"A">>, UrlU >>,
                    << <<>>, <<>>, UrlU >>,
                    << <<>>, <<>>, <<>> >> } }

PackageKeyScenarios ==
    { OneTeam(<<>>, <<>>, [ NoSoftware EXCEPT !.Packages = r ], <<>>, <<>>,
              <<>>, <<>>,
              <<>>, <<>>, [ NoParsedSoftware EXCEPT !.Packages = p ], <<>>) :
          r \in RemotePackageLists,
          p \in SeqsUpTo(ProposedPackages, MaxItems) }

\* ---- software packages: one package on both sides, every field varied
PackageFieldScenarios ==
    { OneTeam(<<>>, <<>>,
              [ NoSoftware EXCEPT
                  !.Packages = << Package(PathSA, ru, rh, rs) >> ],
              <<>>, <<>>, <<>>, <<>>,
              <<>>, <<>>,
              [ NoParsedSoftware EXCEPT
                  !.Packages = << ParsedPackage(PathSA, <<>>, pu, ph, ps) >> ],
              <<>>) :
          ru \in { UrlU, UrlV }, rh \in { <<>>, HashH }, rs \in BOOLEAN,
          pu \in { UrlU, UrlV }, ph \in { <<>>, HashH }, ps \in BOOLEAN }

\* ---- fleet-maintained apps the API lists
\* api.TeamFleetApp and parser.ParsedFleetApp
FleetApp(slug, selfService) == [ Slug |-> slug, SelfService |-> selfService ]

SlugZ == <<"z">>

SlugY == <<"y">>

FleetAppScenarios ==
    { OneTeam(<<>>, <<>>, [ NoSoftware EXCEPT !.FleetMaintained = Slice(r) ],
              <<>>, <<>>, <<>>, <<>>,
              <<>>, <<>>, [ NoParsedSoftware EXCEPT !.FleetMaintained = p ],
              <<>>) :
          r \in SeqsUpTo({ FleetApp(SlugZ, FALSE), FleetApp(SlugZ, TRUE),
                           FleetApp(SlugY, FALSE) }, MaxItems),
          p \in SeqsUpTo({ FleetApp(SlugZ, FALSE), FleetApp(<<"Z", " ">>, TRUE),
                           FleetApp(SlugY, FALSE), FleetApp(<<>>, FALSE) },
                         MaxItems) }

\* ---- App Store apps
\* api.TeamAppStoreApp and parser.ParsedAppStoreApp
AppStoreApp(id, selfService) ==
    [ AppStoreID |-> id, SelfService |-> selfService ]

AppStoreScenarios ==
    { OneTeam(<<>>, <<>>, [ NoSoftware EXCEPT !.AppStoreApps = r ],
              <<>>, <<>>, <<>>, <<>>,
              <<>>, <<>>, [ NoParsedSoftware EXCEPT !.AppStoreApps = p ],
              <<>>) :
          r \in SeqsUpTo({ AppStoreApp(<<"1">>, FALSE),
                           AppStoreApp(<<"1">>, TRUE),
                           AppStoreApp(<<"2">>, FALSE) }, MaxItems),
          p \in SeqsUpTo({ AppStoreApp(<<"1">>, FALSE),
                           AppStoreApp(<<" ", "1">>, TRUE),
                           AppStoreApp(<<"2">>, FALSE),
                           AppStoreApp(<<>>, FALSE) }, MaxItems) }

\* ---- fleet-maintained apps the API reports as null
\* api.SoftwareTitlePackageMeta; a nil *SoftwareTitlePackageMeta
PackageMeta(url, selfService, platform) ==
    [ nil |-> FALSE, PackageURL |-> url, SelfService |-> selfService,
      Platform |-> platform ]

NoPackageMeta ==
    [ nil |-> TRUE, PackageURL |-> <<>>, SelfService |-> FALSE,
      Platform |-> <<>> ]

\* api.SoftwareTitle; AppStoreApp says whether the pointer is non-nil
SoftwareTitle(name, source, appStoreApp, package) ==
    [ Name |-> name, Source |-> source, AppStoreApp |-> appStoreApp,
      SoftwarePackage |-> package ]

\* api.FleetMaintainedApp
CatalogApp(slug, name, platform) ==
    [ Slug |-> slug, Name |-> name, Platform |-> platform ]

Titles ==
    { SoftwareTitle(<<"Z">>, AppsSource, FALSE,
                    PackageMeta(UrlU, TRUE, Darwin)),
      SoftwareTitle(<<"z", " ">>, <<"A", "p", "p", "s">>, FALSE,
                    PackageMeta(UrlV, FALSE, Macos)),
      SoftwareTitle(<<"y">>, AppsSource, FALSE,
                    PackageMeta(UrlV, TRUE, Darwin)),
      SoftwareTitle(<<"z">>, AppsSource, TRUE,
                    PackageMeta(UrlV, TRUE, Darwin)),
      SoftwareTitle(<<"z">>, AppsSource, FALSE, NoPackageMeta),
      SoftwareTitle(<<"z">>, <<"x">>, FALSE,
                    PackageMeta(UrlV, TRUE, Darwin)) }

Catalogs ==
    { <<>>,
      << CatalogApp(<<"Z">>, <<"z">>, Darwin) >>,
      << CatalogApp(SlugZ, <<"Z">>, Darwin),
         CatalogApp(<<"z", "2">>, <<"z">>, Macos) >>,
      << CatalogApp(SlugZ, <<"z">>, Darwin),
         CatalogApp(SlugY, <<"y">>, Darwin) >>,
      << CatalogApp(<<>>, <<"z">>, Darwin) >> }

NullFleetAppScenarios ==
    { OneTeam(<<>>, <<>>,
              [ Packages |-> pkgs, FleetMaintained |-> r,
                AppStoreApps |-> <<>> ],
              <<>>, titles, <<>>, catalog,
              <<>>, <<>>, [ NoParsedSoftware EXCEPT !.FleetMaintained = p ],
              <<>>) :
          pkgs \in { << Package(PathSA, UrlU, <<>>, FALSE) >> },
          r \in { NilSlice, Slice(<<>>) },
          titles \in SeqsUpTo(Titles, MaxItems),
          catalog \in Catalogs,
          p \in { <<>>, << FleetApp(SlugZ, FALSE) >>,
                  << FleetApp(<<"Z">>, TRUE), FleetApp(SlugY, FALSE) >> } }

\* ---- global config
KeyA == <<"a">>

KeyB == <<"b">>

KeyM == <<"m">>

ValueX == StringValue(<<"x">>)

ValueY == StringValue(<<"y">>)

ValueEnv == StringValue(<<"$", "x">>)

\* the empty string, as in `key: ""`
ValueEmpty == StringValue(<<>>)

ServerSettings ==
    <<"s", "e", "r", "v", "e", "r", "_", "s", "e", "t", "t", "i", "n", "g", "s">>

ValueEnvList == ListValue(<< StringValue(<<"x">>), StringValue(<<"$">>) >>)

\* every map over some of the keys a and b
FlatMaps ==
    UNION { [ K -> { ValueX, ValueY, ValueEnv } ] : K \in SUBSET { KeyA, KeyB } }

NestedMaps ==
    { (KeyM :> MapValue(KeyA :> v)) : v \in { ValueX, ValueEnv, ValueEnvList } }
    \cup { (KeyA :> v) @@ (KeyM :> MapValue(KeyB :> w)) :
               v \in { ValueY, ValueEnv }, w \in { ValueY, UintValue(10) } }

ApiConfigs ==
    { NilMap,
      SomeMap(<<>>),
      SomeMap(KeyA :> ValueX),
      SomeMap((KeyA :> ValueY) @@ (KeyB :> BoolValue(TRUE))),
      SomeMap((KeyA :> ValueX) @@ (AgentOptions :> MapValue(KeyA :> ValueX))),
      SomeMap(ServerSettings :> MapValue(KeyA :> ValueX)),
      SomeMap((KeyM :> MapValue(KeyA :> ValueX)) @@ (KeyB :> NilValue)
              @@ (AgentOptions :> ValueX)) }

ConfigScenarios ==
    { Scenario(FleetState(<<>>, <<>>, <<>>, config, <<>>, <<>>),
               ParsedRepo(<<>>, Global(org, agent, controls, <<>>, <<>>)),
               <<>>) :
          config \in ApiConfigs,
          org \in { NilMap, SomeMap(KeyB :> ValueEmpty),
                    SomeMap(ServerSettings :> MapValue(KeyA :> ValueX)),
                    SomeMap(ServerSettings :> MapValue(KeyA :> ValueY)) }
                     \cup { SomeMap(m) : m \in FlatMaps \cup NestedMaps },
          agent \in { NilMap, SomeMap(KeyA :> ValueX), SomeMap(KeyA :> ValueEmpty),
                      SomeMap((KeyA :> ValueEnv) @@ (KeyB :> ValueY)) },
          controls \in { NilMap, SomeMap(KeyB :> ValueY) } }

\* ---- teams: which teams are on which side, the filter, the global file
FullPolicy ==
    ParsedPolicy(NameA, TextXY, <<>>, <<>>, Darwin, FALSE, <<LabelL>>, <<>>)

FullSoftware ==
    [ Packages |-> << ParsedPackage(PathSA, <<>>, UrlU, <<>>, FALSE) >>,
      FleetMaintained |-> << FleetApp(SlugZ, FALSE) >>,
      AppStoreApps |-> << AppStoreApp(<<"1">>, FALSE) >> ]

ProposedTeams ==
    { ParsedTeam(n, <<>>, <<>>, NoParsedSoftware, <<>>) : n \in { TeamT, NoTeam } }
    \cup
    { ParsedTeam(n, << FullPolicy >>,
                 << Query(NameB, TextXY, 10, Darwin, <<>>) >>,
                 FullSoftware,
                 << ParsedProfile(NameA, ProfilePath, Darwin) >>) :
          n \in { TeamT, <<"u">>, NoTeam, <<"n", "o", " ", "t", "e", "a", "m">> } }

EmptyTeam(n) == Team(n, <<>>, <<>>, NoSoftware, <<>>, <<>>)

RemoteTeamLists ==
    { <<>>,
      << EmptyTeam(TeamT) >>,
      << Team(TeamT,
              << Policy(NameA, TextXZ, <<>>, <<>>, Darwin, FALSE, 1, 0) >>,
              <<>>, NoSoftware, <<>>, <<>>),
         EmptyTeam(<<"u">>) >>,
      << EmptyTeam(<<"u">>), EmptyTeam(<<"T">>) >> }

TeamScenarios ==
    { Scenario(FleetState(r, << Label(LabelL, 1) >>, <<>>, NilMap,
                          << Policy(NameA, TextXY, <<>>, <<>>, Darwin, FALSE,
                                    0, 1) >>,
                          <<>>),
               ParsedRepo(p, global),
               filter) :
          r \in RemoteTeamLists,
          p \in SeqsUpTo(ProposedTeams, MaxItems),
          global \in { NoGlobal,
                       Global(NilMap, NilMap, NilMap, << FullPolicy >>,
                              << Query(NameB, TextXY, 0, Darwin, <<>>) >>) },
          filter \in { <<>>, <<"T">>, <<"n", "o", " ", "T", "e", "a", "m">> } }

(***************************************************************************)
(* The repository loader.  A path is the sequence of its elements, an      *)
(* absolute path beginning with the separator; "" is the empty sequence.   *)
(* The file system is a record: the directories, the files with their      *)
(* contents, and the symbolic links with their (absolute) targets.         *)
(***************************************************************************)
Sep == "/"

IsAbs(p) == p # <<>> /\ p[1] = Sep

\* The elements of a path, without the leading separator.
Elements(p) == IF IsAbs(p) THEN Tail(p) ELSE p

\* filepath.Clean over the elements: "." is dropped, ".." removes the
\* element before it, is dropped at the root and kept at the start of a
\* relative path.
RECURSIVE CleanElements(_, _, _)
CleanElements(abs, out, rest) ==
    IF rest = <<>> THEN out
    ELSE IF rest[1] = "." THEN CleanElements(abs, out, Tail(rest))
    ELSE IF rest[1] # ".." THEN CleanElements(abs, Append(out, rest[1]), Tail(rest))
    ELSE IF out # <<>> /\ out[Len(out)] # ".."
    THEN CleanElements(abs, SubSeq(out, 1, Len(out) - 1), Tail(rest))
    ELSE IF abs THEN CleanElements(abs, out, Tail(rest))
    ELSE CleanElements(abs, Append(out, ".."), Tail(rest))

\* filepath.Clean
PathClean(p) ==
    LET out == CleanElements(IsAbs(p), <<>>, Elements(p))
    IN  IF IsAbs(p) THEN <<Sep>> \o out
        ELSE IF out = <<>> THEN <<".">> ELSE out

\* filepath.Join(a, b): empty arguments are ignored, the rest is joined
\* with separators and cleaned.
PathJoin(a, b) ==
    IF a = <<>> /\ b = <<>> THEN <<>>
    ELSE IF a = <<>> THEN PathClean(b)
    ELSE PathClean(a \o Elements(b))

\* filepath.Dir
PathDir(p) ==
    IF Elements(p) = <<>> THEN PathClean(p)
    ELSE PathClean(SubSeq(p, 1, Len(p) - 1))

\* filepath.Abs, in working directory cwd
PathAbs(cwd, p) == IF IsAbs(p) THEN PathClean(p) ELSE PathJoin(cwd, p)

\* The string of a path: its elements with a separator between them.
RECURSIVE Separated(_)
Separated(parts) ==
    IF Len(parts) <= 1 THEN parts
    ELSE << parts[1], Sep >> \o Separated(Tail(parts))

PathString(p) == IF IsAbs(p) THEN <<Sep>> \o Separated(Tail(p)) ELSE Separated(p)

\* filepath.Rel(base, target): an error when only one of them is absolute
\* or when base climbs above the start of target.
PathRel(base, target) ==
    LET b  == Elements(PathClean(base))
        bb == IF b = <<".">> THEN <<>> ELSE b
        t  == Elements(PathClean(target))
        tt == IF t = <<".">> THEN <<>> ELSE t
        common == { n \in 0..Len(bb) :
                      n <= Len(tt) /\ SubSeq(bb, 1, n) = SubSeq(tt, 1, n) }
        k  == CHOOSE n \in common : \A m \in common : m <= n
        up == SubSeq(bb, k + 1, Len(bb))
    IN  IF IsAbs(PathClean(base)) # IsAbs(PathClean(target))
           \/ \E i \in 1..Len(up) : up[i] = ".."
        THEN [ ok |-> FALSE, path |-> <<>> ]
        ELSE [ ok |-> TRUE,
               path |-> PathClean([ i \in 1..Len(up) |-> ".." ]
                                  \o SubSeq(tt, k + 1, Len(tt))) ]

\* The walk of filepath.EvalSymlinks down an absolute path: done is the
\* real path of what has been walked, rest what is left; a link restarts
\* the walk at its target, and a missing element ends it with an error.
RECURSIVE Walk(_, _, _, _)
Walk(fs, done, rest, fuel) ==
    IF rest = <<>> THEN [ ok |-> TRUE, path |-> done ]
    ELSE LET next == Append(done, rest[1])
         IN  IF next \in DOMAIN fs.links
             THEN IF fuel = 0 THEN [ ok |-> FALSE, path |-> <<>> ]
                  ELSE Walk(fs, <<Sep>>, Tail(fs.links[next]) \o Tail(rest),
                            fuel - 1)
             ELSE IF next \in fs.dirs \/ next \in DOMAIN fs.files
             THEN Walk(fs, next, Tail(rest), fuel)
             ELSE [ ok |-> FALSE, path |-> <<>> ]

\* filepath.EvalSymlinks of an absolute, clean path
EvalSymlinks(fs, p) == Walk(fs, <<Sep>>, Tail(p), Cardinality(DOMAIN fs.links))

\* The file a path names for the operating system, when it names one.
RealFile(fs, cwd, p) ==
    LET pick(real) ==
            IF real.ok /\ real.path \in DOMAIN fs.files
            THEN [ ok |-> TRUE, path |-> real.path ]
            ELSE [ ok |-> FALSE, path |-> <<>> ]
    IN  pick(EvalSymlinks(fs, PathAbs(cwd, p)))

\* The real path of an absolute path when filepath.EvalSymlinks finds it,
\* and the path itself when it does not.
RealPath(fs, p) ==
    LET pick(real) == IF real.ok THEN real.path ELSE p
    IN  pick(EvalSymlinks(fs, p))

\* safePath ensures a resolved file path stays within the repo root: TRUE
\* when it returns nil.
safePath(fs, cwd, root, resolved) ==
    LET within(absResolved, absRoot) ==
            \/ HasPrefix(PathString(absResolved), PathString(absRoot) \o <<Sep>>)
            \/ absResolved = absRoot
    IN  within(RealPath(fs, PathAbs(cwd, resolved)),
               RealPath(fs, PathAbs(cwd, root)))

\* ParseError{File, Message}
ParseError(file, message) == [ File |-> file, Message |-> message ]

\* fmt.Errorf("path %q escapes repository root %q", resolved, root)
EscapeMessage(resolved, root) ==
    << "path ", resolved, " escapes repository root ", root >>

\* What a step of the loader gives back: the items it adds to the model,
\* the errors it records, and the files it has read.
Outcome(items, errs, reads) == [ items |-> items, errs |-> errs, reads |-> reads ]

\* The outcomes of the steps of a loop, put together in order.
RECURSIVE Gather(_)
Gather(outcomes) ==
    IF outcomes = <<>> THEN Outcome(<<>>, <<>>, {})
    ELSE LET join(first, rest) ==
                 Outcome(first.items \o rest.items, first.errs \o rest.errs,
                         first.reads \cup rest.reads)
         IN  join(outcomes[1], Gather(Tail(outcomes)))

\* readYAMLRef(baseDir, refPath, parentFile, label) with the package
\* variable repoRoot: ok with the file that was read and its path, or the
\* error.
readYAMLRef(fs, cwd, repoRoot_, baseDir, refPath, parentFile, label) ==
    LET failed(msg) ==
            [ ok |-> FALSE, data |-> <<>>, resolved |-> <<>>,
              errs |-> << ParseError(parentFile, msg) >>, reads |-> {} ]
        read(resolved, file) ==
            IF ~file.ok
            THEN failed(<< label, "path reference ", refPath, ": cannot read" >>)
            ELSE [ ok |-> TRUE, data |-> fs.files[file.path],
                   resolved |-> resolved, errs |-> <<>>,
                   reads |-> { file.path } ]
        checked(resolved) ==
            IF repoRoot_ # <<>> /\ ~safePath(fs, cwd, repoRoot_, resolved)
            THEN failed(EscapeMessage(resolved, repoRoot_))
            ELSE read(resolved, RealFile(fs, cwd, resolved))
    IN  IF refPath = <<>>
        THEN failed(<< "empty ", label, "path: reference" >>)
        ELSE checked(PathJoin(baseDir, refPath))

\* A YAML document: a list of items, one mapping, or something else.
YamlList(items) == [ kind |-> "list", items |-> items ]

YamlMapping(item) == [ kind |-> "mapping", items |-> << item >> ]

YamlParseError(resolved) == ParseError(resolved, << "YAML parse error" >>)

\* resolvePolicyRef and resolveQueryRef: a list of items, or a single item,
\* each stamped with the file it came from.
resolveItemsRef(fs, cwd, repoRoot_, baseDir, refPath, parentFile) ==
    LET items(r) ==
            IF ~r.ok THEN Outcome(<<>>, r.errs, r.reads)
            ELSE IF r.data.kind \in { "list", "mapping" }
            THEN Outcome(MapSeq(r.data.items,
                                LAMBDA name : [ Name |-> name,
                                                SourceFile |-> r.resolved ]),
                         <<>>, r.reads)
            ELSE Outcome(<<>>, << YamlParseError(r.resolved) >>, r.reads)
    IN  items(readYAMLRef(fs, cwd, repoRoot_, baseDir, refPath, parentFile, ""))

\* A software package file: its url and its self_service key.
PackageFile(url, selfService) ==
    [ kind |-> "mapping", items |-> << url >>, selfService |-> selfService ]

\* The self_service of an unmarshalled package: false when the key is absent.
SelfServiceOf(data) ==
    IF "selfService" \in DOMAIN data THEN data.selfService ELSE FALSE

\* resolveSoftwareRef: one package, stamped with the file it came from.
resolveSoftwareRef(fs, cwd, repoRoot_, baseDir, refPath, parentFile) ==
    LET pkgs(r) ==
            IF ~r.ok THEN Outcome(<<>>, r.errs, r.reads)
            ELSE IF r.data.kind = "mapping"
            THEN Outcome(<< [ URL |-> r.data.items[1],
                              SelfService |-> SelfServiceOf(r.data),
                              SourceFile |-> r.resolved,
                              RefPath |-> <<>> ] >>,
                         <<>>, r.reads)
            ELSE Outcome(<<>>, << YamlParseError(r.resolved) >>, r.reads)
    IN  pkgs(readYAMLRef(fs, cwd, repoRoot_, baseDir, refPath, parentFile,
                         "software "))

\* normalizeSoftwareRefPath canonicalizes teams/*.yml software package
\* paths: cleaned, without leading "../" and without a leading separator.
RECURSIVE StripLeadingParents(_)
StripLeadingParents(p) ==
    IF Len(p) >= 2 /\ p[1] = ".." THEN StripLeadingParents(Tail(p)) ELSE p

normalizeSoftwareRefPath(p) ==
    LET stripped(clean) ==
            IF IsAbs(clean) THEN Tail(clean) ELSE StripLeadingParents(clean)
    IN  IF p = <<>> THEN <<>> ELSE stripped(PathClean(p))

\* The canonical reference of a package parseTeamFile has resolved.
canonicalRef(repoRoot_, sourceFile, refPath) ==
    LET fromRel(rel) ==
            IF rel.ok THEN normalizeSoftwareRefPath(rel.path) ELSE <<>>
        orRef(canonical) ==
            IF canonical # <<>> THEN canonical
            ELSE normalizeSoftwareRefPath(refPath)
    IN  orRef(IF repoRoot_ # <<>> /\ sourceFile # <<>>
              THEN fromRel(PathRel(repoRoot_, sourceFile))
              ELSE <<>>)

\* SelfService *bool of rawSoftwareRef: nil, or a pointer to a value.
NilBool == [ nil |-> TRUE, v |-> FALSE ]

BoolPtr(b) == [ nil |-> FALSE, v |-> b ]

\* rawSoftwareRef{Path, SelfService}
rawSoftwareRef(path, selfService) == [ Path |-> path, SelfService |-> selfService ]

\* The same loop without the `continue` after the duplicate error: the
\* error is recorded and the package appended all the same.
RECURSIVE PackagesFromWithoutContinue(_, _, _, _, _, _, _)
PackagesFromWithoutContinue(fs, cwd, repoRoot_, path, refs, i, seen) ==
    LET then(this, seenNow) ==
            Gather(<< this,
                      PackagesFromWithoutContinue(fs, cwd, repoRoot_, path,
                                                  refs, i + 1, seenNow) >>)
        named(got, pkg, canonical) ==
            IF canonical = <<>>
            THEN then(Outcome(<< [ pkg EXCEPT !.RefPath = <<>> ] >>,
                              <<>>, got.reads),
                      seen)
            ELSE IF canonical \in seen
            THEN then(Outcome(<< [ pkg EXCEPT !.RefPath = canonical ] >>,
                              << ParseError(path,
                                     << "duplicate software package reference: ",
                                        canonical >>) >>,
                              got.reads),
                      seen)
            ELSE then(Outcome(<< [ pkg EXCEPT !.RefPath = canonical ] >>,
                              <<>>, got.reads),
                      seen \cup { canonical })
        overridden(pkg, selfService) ==
            IF selfService.nil THEN pkg
            ELSE [ pkg EXCEPT !.SelfService = selfService.v ]
        step(got) ==
            IF got.items = <<>> THEN then(got, seen)
            ELSE named(got,
                       overridden(got.items[1], refs[i].SelfService),
                       canonicalRef(repoRoot_, got.items[1].SourceFile,
                                    refs[i].Path))
    IN  IF i > Len(refs) THEN Outcome(<<>>, <<>>, {})
        ELSE step(resolveSoftwareRef(fs, cwd, repoRoot_, PathDir(path),
                                     refs[i].Path, path))

\* The loop over raw.Software.Packages of parseTeamFile, from reference i
\* on, with the canonical references seen so far.
RECURSIVE PackagesFrom(_, _, _, _, _, _, _)
PackagesFrom(fs, cwd, repoRoot_, path, refs, i, seen) ==
    LET then(this, seenNow) ==
            Gather(<< this,
                      PackagesFrom(fs, cwd, repoRoot_, path, refs, i + 1,
                                   seenNow) >>)
        named(got, pkg, canonical) ==
            IF canonical = <<>>
            THEN then(Outcome(<< [ pkg EXCEPT !.RefPath = <<>> ] >>,
                              <<>>, got.reads),
                      seen)
            ELSE IF canonical \in seen
            THEN then(Outcome(<<>>,
                              << ParseError(path,
                                     << "duplicate software package reference: ",
                                        canonical >>) >>,
                              got.reads),
                      seen)
            ELSE then(Outcome(<< [ pkg EXCEPT !.RefPath = canonical ] >>,
                              <<>>, got.reads),
                      seen \cup { canonical })
        overridden(pkg, selfService) ==
            IF selfService.nil THEN pkg
            ELSE [ pkg EXCEPT !.SelfService = selfService.v ]
        step(got) ==
            IF got.items = <<>> THEN then(got, seen)
            ELSE named(got,
                       overridden(got.items[1], refs[i].SelfService),
                       canonicalRef(repoRoot_, got.items[1].SourceFile,
                                    refs[i].Path))
    IN  IF i > Len(refs) THEN Outcome(<<>>, <<>>, {})
        ELSE step(resolveSoftwareRef(fs, cwd, repoRoot_, PathDir(path),
                                     refs[i].Path, path))

\* A file name in its parts: the stem, and each extension with its dot.
NameParts(name) ==
    CASE name = "d.yml"  -> << "d", ".yml" >>
      [] name = "n.yaml" -> << "n", ".yaml" >>
      [] name = "t.yml"  -> << "t", ".yml" >>
      [] name = "u.yml"  -> << "u", ".yml" >>
      [] name = "m.mobileconfig" -> << "m", ".mobileconfig" >>
      [] name = "M.MOBILECONFIG" -> << "M", ".MOBILECONFIG" >>
      [] name = "j.json"     -> << "j", ".json" >>
      [] name = "w.xml"      -> << "w", ".xml" >>
      [] name = "a.xml.json" -> << "a", ".xml", ".json" >>
      [] name = "p.txt"      -> << "p", ".txt" >>
      [] OTHER               -> << name >>

\* strings.ToLower on the parts of a file name.
LowerParts(parts) ==
    [ i \in 1..Len(parts) |->
        IF parts[i] = ".MOBILECONFIG" THEN ".mobileconfig" ELSE LowerOf(parts[i]) ]

\* strings.HasSuffix
HasSuffix(s_, suffix) ==
    /\ Len(s_) >= Len(suffix)
    /\ SubSeq(s_, Len(s_) - Len(suffix) + 1, Len(s_)) = suffix

\* strings.TrimSuffix
TrimSuffix(s_, suffix) ==
    IF HasSuffix(s_, suffix) THEN SubSeq(s_, 1, Len(s_) - Len(suffix)) ELSE s_

\* The content of a profile file: the needle "<key>PayloadDisplayName</key>"
\* and the tags "<string>" and "</string>" as one symbol each, among
\* characters.
Needle == "<key>PayloadDisplayName</key>"

StringOpen == "<string>"

StringClose == "</string>"

maxProfileSize == 10485760

\* A profile file: its content and its size in bytes.
ProfileData(data, size) == [ kind |-> "profile", data |-> data, size |-> size ]

\* A profile file of ordinary size with one PayloadDisplayName.
ProfileFile(name) ==
    ProfileData(<< Needle, StringOpen >> \o name \o << StringClose >>, 1024)

\* filepath.Base
PathBase(p) == p[Len(p)]

\* The loop of extractMobileconfigName over the occurrences of the needle.
RECURSIVE LastDisplayName(_, _)
LastDisplayName(remaining, last) ==
    LET value(after) ==
            IF Index(after, << StringClose >>) > 0
            THEN TrimSpace(SubSeq(after, 1, Index(after, << StringClose >>) - 1))
            ELSE last
        found(after) ==
            IF HasPrefix(after, << StringOpen >>) THEN value(Tail(after))
            ELSE last
        next(rest) == LastDisplayName(rest, found(TrimSpace(rest)))
    IN  IF Index(remaining, << Needle >>) = 0 THEN last
        ELSE next(SubSeq(remaining, Index(remaining, << Needle >>) + 1,
                         Len(remaining)))

\* The same loop leaving at the first occurrence that has a value.
RECURSIVE FirstDisplayName(_, _)
FirstDisplayName(remaining, last) ==
    LET value(after) ==
            IF Index(after, << StringClose >>) > 0
            THEN TrimSpace(SubSeq(after, 1, Index(after, << StringClose >>) - 1))
            ELSE last
        found(after) ==
            IF HasPrefix(after, << StringOpen >>) THEN value(Tail(after))
            ELSE last
        next(rest, name) ==
            IF name # <<>> THEN name ELSE FirstDisplayName(rest, name)
        at(rest) == next(rest, found(TrimSpace(rest)))
    IN  IF Index(remaining, << Needle >>) = 0 THEN last
        ELSE at(SubSeq(remaining, Index(remaining, << Needle >>) + 1,
                       Len(remaining)))

\* extractMobileconfigName taking the first PayloadDisplayName.
extractMobileconfigNameFirst(data) == FirstDisplayName(data, <<>>)

\* extractMobileconfigName extracts the top-level PayloadDisplayName from a
\* .mobileconfig plist: the last occurrence in the file.
extractMobileconfigName(data) == LastDisplayName(data, <<>>)

\* extractProfileName: the name in a .mobileconfig file that os.Stat finds,
\* that is not larger than maxProfileSize and can be read; the empty string
\* otherwise, and for any other file name, which is not opened.
extractProfileName(fs, cwd, filePath) ==
    LET read(file, content) ==
            IF content.kind # "profile"
            THEN [ name |-> <<>>, reads |-> { file.path } ]
            ELSE IF content.size > maxProfileSize
            THEN [ name |-> <<>>, reads |-> {} ]
            ELSE [ name |-> extractMobileconfigName(content.data),
                   reads |-> { file.path } ]
        stat(file) ==
            IF ~file.ok THEN [ name |-> <<>>, reads |-> {} ]
            ELSE read(file, fs.files[file.path])
    IN  IF ~HasSuffix(LowerParts(NameParts(PathBase(filePath))),
                      << ".mobileconfig" >>)
        THEN [ name |-> <<>>, reads |-> {} ]
        ELSE stat(RealFile(fs, cwd, filePath))

\* profileNameFromFilename derives a profile name from the filename by
\* stripping the extensions .mobileconfig, .json and .xml, in this order.
profileNameFromFilename(filePath) ==
    TrimSuffix(TrimSuffix(TrimSuffix(NameParts(PathBase(filePath)),
                                     << ".mobileconfig" >>),
                          << ".json" >>),
               << ".xml" >>)

\* One iteration of the loops of parseTeamFile over the custom settings of
\* a platform.
ProfileFrom(fs, cwd, repoRoot_, path, ref, platform) ==
    LET profile(resolved, extracted) ==
            Outcome(<< [ Path |-> resolved,
                         Name |-> IF extracted.name # <<>> THEN extracted.name
                                  ELSE profileNameFromFilename(resolved),
                         Platform |-> platform,
                         SourceFile |-> path ] >>,
                    <<>>, extracted.reads)
        checked(resolved) ==
            IF repoRoot_ # <<>> /\ ~safePath(fs, cwd, repoRoot_, resolved)
            THEN Outcome(<<>>,
                         << ParseError(path, EscapeMessage(resolved, repoRoot_)) >>,
                         {})
            ELSE profile(resolved, extractProfileName(fs, cwd, resolved))
    IN  checked(PathJoin(PathDir(path), ref))

\* A team file: name, and the path: references of its sections.
TeamFile(name, policies, queries, packages, macos, windows) ==
    [ kind |-> "team", name |-> name, policies |-> policies,
      queries |-> queries, packages |-> packages,
      selfService |-> [ i \in DOMAIN packages |-> NilBool ],
      macos |-> macos, windows |-> windows ]

\* raw.Software.Packages: the path and the self_service of each entry.
rawPackages(raw) ==
    [ i \in DOMAIN raw.packages |->
        rawSoftwareRef(raw.packages[i], raw.selfService[i]) ]

\* The path: references of a section resolved one after the other.
ItemsFrom(fs, cwd, repoRoot_, path, refs) ==
    Gather(MapSeq(refs, LAMBDA ref : resolveItemsRef(fs, cwd, repoRoot_,
                                                     PathDir(path), ref, path)))

ProfilesFrom(fs, cwd, repoRoot_, path, refs, platform) ==
    Gather(MapSeq(refs, LAMBDA ref : ProfileFrom(fs, cwd, repoRoot_, path, ref,
                                                 platform)))

\* parseTeamFile parses a single teams/*.yml file and resolves all path:
\* refs.  nil says that it returned no team.
parseTeamFile(fs, cwd, repoRoot_, path) ==
    LET none(msg, reads) ==
            [ nil |-> TRUE, team |-> <<>>,
              errs |-> << ParseError(path, msg) >>, reads |-> reads ]
        team(name, file, policies, queries, packages, macos, windows) ==
            [ nil |-> FALSE,
              team |-> [ Name |-> name, SourceFile |-> path,
                         Policies |-> policies.items,
                         Queries |-> queries.items,
                         Packages |-> packages.items,
                         Profiles |-> macos.items \o windows.items ],
              errs |-> policies.errs \o queries.errs \o packages.errs
                           \o macos.errs \o windows.errs,
              reads |-> { file } \cup policies.reads \cup queries.reads
                            \cup packages.reads \cup macos.reads
                            \cup windows.reads ]
        parse(file, raw) ==
            IF raw.kind # "team" THEN none(<< "invalid YAML" >>, { file })
            ELSE IF raw.name = <<>>
            THEN none(<< "missing required 'name' field" >>, { file })
            ELSE team(raw.name, file,
                      ItemsFrom(fs, cwd, repoRoot_, path, raw.policies),
                      ItemsFrom(fs, cwd, repoRoot_, path, raw.queries),
                      PackagesFrom(fs, cwd, repoRoot_, path, rawPackages(raw), 1, {}),
                      ProfilesFrom(fs, cwd, repoRoot_, path, raw.macos, Darwin),
                      ProfilesFrom(fs, cwd, repoRoot_, path, raw.windows, Windows))
        open(file) ==
            IF ~file.ok THEN none(<< "could not read" >>, {})
            ELSE parse(file.path, fs.files[file.path])
    IN  open(RealFile(fs, cwd, path))

\* One iteration of the loop of parseDefaultFile over the labels.
LabelsFrom(fs, cwd, repoRoot_, path, ref) ==
    LET read(resolved, file) ==
            IF ~file.ok
            THEN Outcome(<<>>,
                         << ParseError(path, << "label path reference ", ref,
                                                ": cannot read" >>) >>,
                         {})
            ELSE IF fs.files[file.path].kind = "list"
            THEN Outcome(MapSeq(fs.files[file.path].items,
                                LAMBDA name : [ Name |-> name,
                                                SourceFile |-> resolved ]),
                         <<>>, { file.path })
            ELSE Outcome(<<>>, << YamlParseError(resolved) >>, { file.path })
        checked(resolved) ==
            IF repoRoot_ # <<>> /\ ~safePath(fs, cwd, repoRoot_, resolved)
            THEN Outcome(<<>>,
                         << ParseError(path, EscapeMessage(resolved, repoRoot_)) >>,
                         {})
            ELSE read(resolved, RealFile(fs, cwd, resolved))
    IN  IF ref = <<>> THEN Outcome(<<>>, <<>>, {})
        ELSE checked(PathJoin(PathDir(path), ref))

\* default.yml: the path: references of its sections.
DefaultFile(policies, queries, labels) ==
    [ kind |-> "default", policies |-> policies, queries |-> queries,
      labels |-> labels ]

\* parseDefaultFile parses default.yml and resolves its path: refs.
parseDefaultFile(fs, cwd, repoRoot_, path) ==
    LET none(msg, reads) ==
            [ nil |-> TRUE, global |-> <<>>, labels |-> <<>>,
              errs |-> << ParseError(path, msg) >>, reads |-> reads ]
        default(file, policies, queries, labels) ==
            [ nil |-> FALSE,
              global |-> [ SourceFile |-> path, Policies |-> policies.items,
                           Queries |-> queries.items ],
              labels |-> labels.items,
              errs |-> policies.errs \o queries.errs \o labels.errs,
              reads |-> { file } \cup policies.reads \cup queries.reads
                            \cup labels.reads ]
        parse(file, raw) ==
            IF raw.kind # "default"
            THEN none(<< "YAML parse error" >>, { file })
            ELSE default(file,
                         ItemsFrom(fs, cwd, repoRoot_, path, raw.policies),
                         ItemsFrom(fs, cwd, repoRoot_, path, raw.queries),
                         Gather(MapSeq(raw.labels,
                                       LAMBDA ref : LabelsFrom(fs, cwd, repoRoot_,
                                                               path, ref))))
        open(file) ==
            IF ~file.ok THEN none(<< "could not read" >>, {})
            ELSE parse(file.path, fs.files[file.path])
    IN  open(RealFile(fs, cwd, path))

\* The names os.ReadDir can list in teams/, in the order it lists them.
\* The names an entry of teams/ can have, in the order os.ReadDir returns
\* them (sorted by file name).
TeamFileNames == << "d.yml", "n.yaml", "t.yml", "u.yml" >>

\* os.ReadDir: the entries of a directory, sorted by name.
ReadDir(fs, dir) ==
    SelectSeq(TeamFileNames,
              LAMBDA name : \/ Append(dir, name) \in fs.dirs
                            \/ Append(dir, name) \in DOMAIN fs.files
                            \/ Append(dir, name) \in DOMAIN fs.links)

\* The entries the loop of ParseRepo does not skip (parser.go 259-261).
TeamEntries(fs, dir) ==
    SelectSeq(ReadDir(fs, dir),
              LAMBDA name : /\ Append(dir, name) \notin fs.dirs
                            /\ HasSuffix(NameParts(name), << ".yml" >>))

\* ParsedRepo{}
EmptyRepo ==
    [ Teams |-> <<>>, Labels |-> <<>>,
      Global |-> [ nil |-> TRUE, SourceFile |-> <<>>, Policies |-> <<>>,
                   Queries |-> <<>> ],
      Errors |-> <<>> ]

\* The same loop leaving at the first file that gives no team.
RECURSIVE TeamFilesFromUntilError(_, _, _, _, _, _, _)
TeamFilesFromUntilError(fs, cwd, root_, filter, teamsDir, entries, i) ==
    LET step(got) ==
            IF got.nil THEN Outcome(<<>>, got.errs, got.reads)
            ELSE Gather(<< Outcome(IF filter = <<>>
                                      \/ EqualFold(got.team.Name, filter)
                                   THEN << got.team >> ELSE <<>>,
                                   got.errs, got.reads),
                           TeamFilesFromUntilError(fs, cwd, root_, filter,
                                                   teamsDir, entries, i + 1) >>)
    IN  IF i > Len(entries) THEN Outcome(<<>>, <<>>, {})
        ELSE step(parseTeamFile(fs, cwd, root_,
                                PathJoin(teamsDir, << entries[i] >>)))

\* The loop of ParseRepo over the entries of teams/, from entry i on.
RECURSIVE TeamFilesFrom(_, _, _, _, _, _, _)
TeamFilesFrom(fs, cwd, root_, filter, teamsDir, entries, i) ==
    LET step(got) ==
            Gather(<< Outcome(IF ~got.nil /\ (filter = <<>>
                                              \/ EqualFold(got.team.Name, filter))
                              THEN << got.team >> ELSE <<>>,
                              got.errs, got.reads),
                      TeamFilesFrom(fs, cwd, root_, filter, teamsDir, entries,
                                    i + 1) >>)
    IN  IF i > Len(entries) THEN Outcome(<<>>, <<>>, {})
        ELSE step(parseTeamFile(fs, cwd, root_,
                                PathJoin(teamsDir, << entries[i] >>)))

\* ParseRepo without the return after the missing teams/ directory: the
\* error is recorded and the default file loaded all the same.
ParseRepoPastMissingTeams(fs, cwd, root_, filter, defaultFile_) ==
    LET missing(teamsDir) ==
            [ fatal |-> FALSE,
              repo |-> [ EmptyRepo EXCEPT
                           !.Errors = << ParseError(teamsDir,
                               << "teams/ directory not found. Are you in a fleet-gitops repo?" >>) >> ],
              reads |-> {} ]
        merged(teams, default) ==
            [ fatal |-> FALSE,
              repo |-> [ Teams  |-> teams.items,
                         Labels |-> IF default.nil THEN <<>> ELSE default.labels,
                         Global |-> IF default.nil THEN EmptyRepo.Global
                                    ELSE [ nil |-> FALSE,
                                           SourceFile |-> default.global.SourceFile,
                                           Policies |-> default.global.Policies,
                                           Queries |-> default.global.Queries ],
                         Errors |-> teams.errs \o default.errs ],
              reads |-> teams.reads \cup default.reads ]
        withDefault(teams, resolvedDefault) ==
            IF ~EvalSymlinks(fs, PathAbs(cwd, resolvedDefault)).ok
            THEN [ fatal |-> FALSE,
                   repo |-> [ EmptyRepo EXCEPT !.Teams = teams.items,
                                               !.Errors = teams.errs ],
                   reads |-> teams.reads ]
            ELSE merged(teams, parseDefaultFile(fs, cwd, root_, resolvedDefault))
        listed(teamsDir, realDir) ==
            IF ~realDir.ok
            THEN withDefault(Outcome(<<>>, missing(teamsDir).repo.Errors, {}),
                             IF defaultFile_ # <<>> THEN defaultFile_
                             ELSE PathJoin(root_, << "default.yml" >>))
            ELSE IF realDir.path \notin fs.dirs
            THEN [ fatal |-> TRUE, repo |-> EmptyRepo, reads |-> {} ]
            ELSE withDefault(
                     TeamFilesFrom(fs, cwd, root_, filter, teamsDir,
                         TeamEntries(fs, realDir.path), 1),
                     IF defaultFile_ # <<>> THEN defaultFile_
                     ELSE PathJoin(root_, << "default.yml" >>))
        at(teamsDir) == listed(teamsDir, EvalSymlinks(fs, PathAbs(cwd, teamsDir)))
    IN  at(PathJoin(root_, << "teams" >>))

\* ParseRepo(root, teamFilter, defaultFile): the repository it returns, the
\* files it has read, and whether it returned an error instead.  It leaves
\* root in the package variable repoRoot.
ParseRepo(fs, cwd, root_, filter, defaultFile_) ==
    LET missing(teamsDir) ==
            [ fatal |-> FALSE,
              repo |-> [ EmptyRepo EXCEPT
                           !.Errors = << ParseError(teamsDir,
                               << "teams/ directory not found. Are you in a fleet-gitops repo?" >>) >> ],
              reads |-> {} ]
        merged(teams, default) ==
            [ fatal |-> FALSE,
              repo |-> [ Teams  |-> teams.items,
                         Labels |-> IF default.nil THEN <<>> ELSE default.labels,
                         Global |-> IF default.nil THEN EmptyRepo.Global
                                    ELSE [ nil |-> FALSE,
                                           SourceFile |-> default.global.SourceFile,
                                           Policies |-> default.global.Policies,
                                           Queries |-> default.global.Queries ],
                         Errors |-> teams.errs \o default.errs ],
              reads |-> teams.reads \cup default.reads ]
        withDefault(teams, resolvedDefault) ==
            IF ~EvalSymlinks(fs, PathAbs(cwd, resolvedDefault)).ok
            THEN [ fatal |-> FALSE,
                   repo |-> [ EmptyRepo EXCEPT !.Teams = teams.items,
                                               !.Errors = teams.errs ],
                   reads |-> teams.reads ]
            ELSE merged(teams, parseDefaultFile(fs, cwd, root_, resolvedDefault))
        listed(teamsDir, realDir) ==
            IF ~realDir.ok THEN missing(teamsDir)
            ELSE IF realDir.path \notin fs.dirs
            THEN [ fatal |-> TRUE, repo |-> EmptyRepo, reads |-> {} ]
            ELSE withDefault(
                     TeamFilesFrom(fs, cwd, root_, filter, teamsDir,
                         TeamEntries(fs, realDir.path), 1),
                     IF defaultFile_ # <<>> THEN defaultFile_
                     ELSE PathJoin(root_, << "default.yml" >>))
        at(teamsDir) == listed(teamsDir, EvalSymlinks(fs, PathAbs(cwd, teamsDir)))
    IN  at(PathJoin(root_, << "teams" >>))

(***************************************************************************)
(* The repositories ParseRepo is called on.                                *)
(***************************************************************************)
RepoDir == << Sep, "r" >>

OutsideDir == << Sep, "o" >>

LibDir == RepoDir \o << "lib" >>

NameO == <<"o">>

\* Directories and files that are always there: the repository /r with
\* teams/ and lib/, and a directory /o next to it.
BaseDirs == { << Sep >>, RepoDir, RepoDir \o << "teams" >>, LibDir, OutsideDir }

BaseFiles ==
    (LibDir \o << "p.yml" >> :> YamlList(<< NameA >>))
    @@ (LibDir \o << "k.yml" >> :> YamlMapping(UrlU))
    @@ (LibDir \o << "m.mobileconfig" >> :> ProfileFile(<<"m">>))
    @@ (OutsideDir \o << "x.yml" >> :> YamlList(<< NameO >>))
    @@ (OutsideDir \o << "k.yml" >> :> YamlMapping(UrlV))
    @@ (OutsideDir \o << "m.mobileconfig" >> :> ProfileFile(NameO))
    @@ (OutsideDir \o << "d.yml" >> :>
            DefaultFile(<< << "x.yml" >> >>, <<>>, << << "x.yml" >> >>))
    @@ (OutsideDir \o << "default.yml" >> :>
            DefaultFile(<< << "x.yml" >> >>, <<>>, <<>>))

NoLinks == << >>

\* lib/out -> /o, lib/s.yml -> /o/x.yml, lib/d.yml -> a file that is not
\* there, lib/i.yml -> lib/p.yml, and /l -> /r.
SomeLinks ==
    (LibDir \o << "out" >> :> OutsideDir)
    @@ (LibDir \o << "s.yml" >> :> OutsideDir \o << "x.yml" >>)
    @@ (LibDir \o << "d.yml" >> :> OutsideDir \o << "none.yml" >>)
    @@ (LibDir \o << "i.yml" >> :> LibDir \o << "p.yml" >>)
    @@ (<< Sep, "l" >> :> RepoDir)

\* The working directory and the root argument of a call.
Up(path) == << ".." >> \o path

Call(cwd_, root_, defaultFile_, teamFilter_) ==
    [ cwd |-> cwd_, root |-> root_, defaultFile |-> defaultFile_,
      teamFilter |-> teamFilter_ ]

\* The working directory and the arguments of a call.
Calls ==
    { Call(RepoDir, <<>>, <<>>, <<>>),
      Call(RepoDir, << "." >>, <<>>, <<>>),
      Call(<< Sep >>, RepoDir, <<>>, <<>>),
      Call(<< Sep >>, << "r" >>, <<>>, <<"T">>),
      Call(<< Sep >>, << Sep, "l" >>, <<>>, <<>>),
      Call(OutsideDir, <<>>, <<>>, <<>>),
      Call(<< Sep >>, RepoDir, OutsideDir \o << "d.yml" >>, <<"u">>),
      Call(RepoDir, <<>>, Up(<< "o", "d.yml" >>), <<>>),
      Call(<< Sep >>, OutsideDir, OutsideDir \o << "d.yml" >>, <<>>) }

\* path: references of a file in teams/, by the section they stand in.
PolicyRefs ==
    { Up(<< "lib", "p.yml" >>), Up(<< "lib", "i.yml" >>),
      Up(<< "lib", "s.yml" >>), Up(<< "lib", "out", "x.yml" >>),
      Up(Up(<< "o", "x.yml" >>)), Up(<< "lib", "d.yml" >>), <<>> }

TypedRefs ==
    { [ section |-> "policies", path |-> ref ] : ref \in PolicyRefs }
    \cup { [ section |-> "queries", path |-> Up(Up(<< "o", "x.yml" >>)) ] }
    \cup { [ section |-> "packages", path |-> ref ] :
               ref \in { Up(<< "lib", "k.yml" >>), Up(<< "lib", "out", "k.yml" >>),
                         Up(Up(<< "o", "k.yml" >>)) } }
    \cup { [ section |-> "macos", path |-> ref ] :
               ref \in { Up(<< "lib", "m.mobileconfig" >>),
                         Up(<< "lib", "out", "m.mobileconfig" >>),
                         Up(Up(<< "o", "m.mobileconfig" >>)) } }
    \cup { [ section |-> "windows", path |-> Up(<< "lib", "w.xml" >>) ] }

\* The references of a section among the given ones, in their order.
InSection(refs, section) ==
    MapSeq(SelectSeq(refs, LAMBDA r : r.section = section), LAMBDA r : r.path)

TeamFiles ==
    { TeamFile(TeamT, InSection(refs, "policies"), InSection(refs, "queries"),
               InSection(refs, "packages"), InSection(refs, "macos"),
               InSection(refs, "windows")) :
          refs \in SeqsUpTo(TypedRefs, MaxRefs) }

\* Team files whose packages carry a self_service of their own: lib/k.yml
\* under two spellings of its path, and lib/q.yml.
PackageRefs ==
    { rawSoftwareRef(Up(<< "lib", "k.yml" >>), NilBool),
      rawSoftwareRef(Up(<< "lib", "k.yml" >>), BoolPtr(TRUE)),
      rawSoftwareRef(Up(<< "lib", "..", "lib", "k.yml" >>), BoolPtr(FALSE)),
      rawSoftwareRef(Up(<< "lib", "q.yml" >>), NilBool) }

TeamFileOfPackages(name, refs) ==
    [ TeamFile(name, <<>>, <<>>, MapSeq(refs, LAMBDA r : r.Path), <<>>, <<>>)
        EXCEPT !.selfService = MapSeq(refs, LAMBDA r : r.SelfService) ]

PackageTeamFiles ==
    { TeamFileOfPackages(TeamT, refs) : refs \in SeqsUpTo(PackageRefs, MaxRefs + 1) }

\* What an entry of teams/ can be: a team file with or without a name or a
\* reference, a YAML list where a mapping is expected, a link to a file
\* that is not there, or nothing.
TeamEntryKinds == { "none", "team t", "team u", "nameless", "list", "broken", "refs" }

TeamEntry(kind) ==
    CASE kind = "team t"   -> TeamFile(TeamT, <<>>, <<>>, <<>>, <<>>, <<>>)
      [] kind = "team u"   -> TeamFile(<<"u">>, <<>>, <<>>, <<>>, <<>>, <<>>)
      [] kind = "nameless" -> TeamFile(<<>>, << Up(<< "lib", "p.yml" >>) >>,
                                       <<>>, <<>>, <<>>, <<>>)
      [] kind = "list"     -> YamlList(<< TeamT >>)
      [] kind = "refs"     -> TeamFile(TeamT, << Up(<< "lib", "p.yml" >>),
                                                Up(<< "lib", "none.yml" >>) >>,
                                       <<>>, <<>>, <<>>, <<>>)

TeamsDir == RepoDir \o << "teams" >>

\* The files of teams/ for the kinds of its entries t.yml and u.yml, and
\* n.yaml, which is a team file under another extension, when asked for.
TeamsDirFiles(t, u, others) ==
    [ path \in { TeamsDir \o << name >> :
                   name \in (IF t \in { "none", "broken" } THEN {} ELSE { "t.yml" })
                        \cup (IF u \in { "none", "broken" } THEN {} ELSE { "u.yml" })
                        \cup (IF others THEN { "n.yaml" } ELSE {}) } |->
        IF path = TeamsDir \o << "t.yml" >> THEN TeamEntry(t)
        ELSE IF path = TeamsDir \o << "u.yml" >> THEN TeamEntry(u)
        ELSE TeamFile(<<"n">>, <<>>, <<>>, <<>>, <<>>, <<>>) ]

TeamsDirLinks(t, u) ==
    [ path \in { TeamsDir \o << name >> :
                   name \in (IF t = "broken" THEN { "t.yml" } ELSE {})
                        \cup (IF u = "broken" THEN { "u.yml" } ELSE {}) } |->
        OutsideDir \o << "none.yml" >> ]

\* The names a profile file can have, and what it can hold: a name in a
\* nested payload and the top-level name after it; no PayloadDisplayName;
\* a PayloadDisplayName that is no string after one that is; an empty
\* string after a name; an unterminated string; a name in a file of more
\* than maxProfileSize bytes, and in one of exactly that size.
ProfileNames ==
    { "m.mobileconfig", "M.MOBILECONFIG", "j.json", "w.xml", "a.xml.json", "p.txt" }

ProfileContents ==
    { "nested", "unnamed", "integer", "empty", "open", "large", "limit",
      "missing", "directory" }

ProfileContent(kind) ==
    CASE kind = "nested" ->
             ProfileData(<< "<", Needle, "\n", StringOpen, "a", StringClose,
                            Needle, StringOpen, " ", "b", " ", StringClose, ">" >>,
                         1024)
      [] kind = "unnamed" -> ProfileData(<< "<", StringOpen, "a", StringClose >>, 1024)
      [] kind = "integer" ->
             ProfileData(<< Needle, StringOpen, "a", StringClose,
                            Needle, "<", "1", ">" >>, 1024)
      [] kind = "empty" ->
             ProfileData(<< Needle, StringOpen, "a", StringClose,
                            Needle, StringOpen, " ", StringClose >>, 1024)
      [] kind = "open" -> ProfileData(<< Needle, StringOpen, "a" >>, 1024)
      [] kind = "large" -> [ ProfileFile(<< "a" >>) EXCEPT !.size = maxProfileSize + 1 ]
      [] kind = "limit" -> [ ProfileFile(<< "a" >>) EXCEPT !.size = maxProfileSize ]

\* A repository whose team file refers to one profile, lib/<name>.
ProfileRepository(name, kind) ==
    [ dirs  |-> IF kind = "directory" THEN BaseDirs \cup { LibDir \o << name >> }
                ELSE BaseDirs,
      files |-> (RepoDir \o << "teams", "t.yml" >> :>
                     IF name = "w.xml"
                     THEN TeamFile(TeamT, <<>>, <<>>, <<>>, <<>>,
                                   << Up(<< "lib", name >>) >>)
                     ELSE TeamFile(TeamT, <<>>, <<>>, <<>>,
                                   << Up(<< "lib", name >>) >>, <<>>))
                @@ (IF kind \in { "missing", "directory" } THEN << >>
                    ELSE (LibDir \o << name >> :> ProfileContent(kind)))
                @@ [ path \in DOMAIN BaseFiles \ { LibDir \o << name >> } |->
                       BaseFiles[path] ],
      links |-> NoLinks ]

\* default.yml files: references of a file in the repository root.
DefaultFiles ==
    { DefaultFile(policies, queries, labels) :
          policies \in { <<>>, << << "lib", "p.yml" >> >> },
          queries \in { <<>>, << Up(<< "o", "x.yml" >>) >> },
          labels \in SeqsUpTo({ << "lib", "p.yml" >>, << "lib", "s.yml" >>,
                                Up(<< "o", "x.yml" >>), <<>> }, MaxRefs) }

FileSystem(files, links) == [ dirs |-> BaseDirs, files |-> files, links |-> links ]

\* What parsed holds before the first call.
NotParsed == [ fatal |-> FALSE, repo |-> EmptyRepo, reads |-> {} ]

\* A repository with one team file, and a repository with a default.yml
\* and a team file without references.
Repositories ==
    { FileSystem((RepoDir \o << "teams", "t.yml" >> :> t) @@ BaseFiles, links) :
          t \in TeamFiles, links \in { NoLinks, SomeLinks } }
    \cup
    { FileSystem((RepoDir \o << "teams", "t.yml" >> :>
                      TeamFile(name, <<>>, <<>>, <<>>, <<>>, <<>>))
                 @@ (RepoDir \o << "default.yml" >> :> d) @@ BaseFiles, links) :
          name \in { TeamT, <<>> }, d \in DefaultFiles,
          links \in { NoLinks, SomeLinks } }
    \cup
    { [ FileSystem(TeamsDirFiles(t, u, others) @@ BaseFiles, TeamsDirLinks(t, u))
          EXCEPT !.dirs = IF others THEN BaseDirs \cup { TeamsDir \o << "d.yml" >> }
                          ELSE BaseDirs ] :
          t \in TeamEntryKinds, u \in TeamEntryKinds, others \in BOOLEAN }
    \cup
    { ProfileRepository(name, kind) : name \in ProfileNames, kind \in ProfileContents }
    \cup
    { FileSystem((RepoDir \o << "teams", "t.yml" >> :> t)
                 @@ (LibDir \o << "q.yml" >> :> PackageFile(UrlV, TRUE))
                 @@ BaseFiles, NoLinks) :
          t \in PackageTeamFiles }

(***************************************************************************)
(* The state machine: Diff is called on the inputs, and called again.      *)
(***************************************************************************)
\* The scenario families, one after the other.
Scenarios ==
    << PolicyKeyScenarios,
       PolicyTextScenarios,
       PolicyFlagScenarios,
       PolicyHostScenarios,
       QueryKeyScenarios,
       QueryFieldScenarios,
       ProfileScenarios,
       LabelScenarios,
       PackageKeyScenarios,
       PackageFieldScenarios,
       FleetAppScenarios,
       AppStoreScenarios,
       NullFleetAppScenarios,
       ConfigScenarios,
       TeamScenarios >>

(***************************************************************************)
(* The API client (internal/api/client.go): FetchAll.  A Go error is the   *)
(* chain of the errors it wraps, outermost first, and nil the empty chain. *)
(***************************************************************************)
MaxTeams == 2      \* most teams the server lists
MaxFailures == 1   \* most endpoints of the server that fail

StatusNotFound == 404
StatusForbidden == 403
StatusInternalServerError == 500

\* g.SetLimit(5)
Limit == 5

NoError == <<>>

\* &HTTPError{StatusCode: resp.StatusCode, ...}
HTTPError(status) == << [ kind |-> "HTTPError", StatusCode |-> status ] >>

\* The error of httpClient.Do or of the JSON decoder, as get returns it.
RequestError == << [ kind |-> "wrapError", StatusCode |-> 0 ], [ kind |-> "requestError", StatusCode |-> 0 ] >>

\* The error of a request whose context is cancelled, as get returns it.
ContextCanceled == << [ kind |-> "wrapError", StatusCode |-> 0 ], [ kind |-> "canceled", StatusCode |-> 0 ] >>

\* fmt.Errorf("...: %w", err)
Errorf(err) == << [ kind |-> "wrapError", StatusCode |-> 0 ] >> \o err

\* errors.As(err, &httpErr): the first *HTTPError of the chain, if any.
AsHTTPError(err) == SelectSeq(err, LAMBDA e : e.kind = "HTTPError")

\* One request path of the API, for a team or (teamID 0) for no team.
Endpoint(path, teamID) == [ path |-> path, teamID |-> teamID ]

\* The ID of the i-th team the server lists.
TeamID(i) == MaxTeams + 1 - i

\* A Team as the teams endpoint returns it: nothing fetched yet.
ListedTeam(id) == [ ID |-> id, Policies |-> <<>>, Queries |-> <<>>, Profiles |-> <<>>, SoftwareTitles |-> <<>> ]

\* The zero value of Team.
ZeroTeam == ListedTeam(0)

\* What the server holds for an endpoint: rows that name the endpoint.
Rows(srv, e) ==
    IF e.path = "teams"
    THEN [ i \in 1..srv.teamCount |-> ListedTeam(TeamID(i)) ]
    ELSE << e >>

\* The endpoints FetchAll can ask a server with the given teams for.
Endpoints(teamCount) ==
    { Endpoint(path, 0) : path \in { "teams", "labels", "fleet_maintained_apps", "config", "policies", "queries" } }
       \cup { Endpoint(path, TeamID(i)) : path \in { "policies", "queries", "profiles", "software" }, i \in 1..teamCount }

\* The errors get returns for an endpoint of the model: a status other than
\* 200, or the error of the transport.
Failures(e) ==
    IF e.path = "fleet_maintained_apps"
    THEN { HTTPError(StatusNotFound), HTTPError(StatusForbidden), HTTPError(StatusInternalServerError), RequestError }
    ELSE { HTTPError(StatusNotFound), RequestError }

\* A server: the teams it lists and the error of each failing endpoint.
Server(teamCount, failures) == [ teamCount |-> teamCount, failures |-> failures ]

FailingSets(teamCount) == { F \in SUBSET Endpoints(teamCount) : Cardinality(F) <= MaxFailures }

Servers ==
    UNION { UNION { { Server(n, f) : f \in { g \in [ F -> UNION { Failures(e) : e \in F } ] : \A e \in F : g[e] \in Failures(e) } } : F \in FailingSets(n) } : n \in 0..MaxTeams }

\* c.get(ctx, path, query, &resp) with a context that stays live.
get(srv, e) ==
    IF e \in DOMAIN srv.failures
    THEN [ err |-> srv.failures[e], data |-> <<>> ]
    ELSE [ err |-> NoError, data |-> Rows(srv, e) ]

\* GetTeams, GetLabels, GetPolicies, ...: the rows, or the wrapped error.
Get(srv, e) ==
    LET wrapped(r) == IF r.err # NoError THEN [ err |-> Errorf(r.err), data |-> <<>> ] ELSE r
    IN  wrapped(get(srv, e))

\* The same under the context of the errgroup: once the group has an error
\* the context is cancelled, and the request may fail for that instead.
GetUnder(srv, e, cancelled) ==
    { Get(srv, e) } \cup (IF cancelled THEN { [ err |-> Errorf(ContextCanceled), data |-> <<>> ] } ELSE {})

\* The test FetchAll makes on the error of GetFleetMaintainedApps.
CatalogToleratedAnyStatus(err) == AsHTTPError(err) # <<>>
CatalogTolerated(err) ==
    /\ AsHTTPError(err) # <<>>
    /\ \/ Head(AsHTTPError(err)).StatusCode = StatusNotFound
       \/ Head(AsHTTPError(err)).StatusCode = StatusForbidden

\* One function handed to g.Go: the endpoint it fetches and the index of
\* the team result it writes (0: it writes a field of state).
Task(path, teamID, idx) == [ path |-> path, teamID |-> teamID, idx |-> idx ]

GlobalTasks == << Task("config", 0, 0), Task("policies", 0, 0), Task("queries", 0, 0) >>

TeamTasks(t, idx) ==
    << Task("policies", t.ID, idx), Task("queries", t.ID, idx), Task("profiles", t.ID, idx), Task("software", t.ID, idx) >>

RECURSIVE AllTeamTasks(_, _)
AllTeamTasks(ts, idx) ==
    IF idx > Len(ts) THEN <<>>
    ELSE TeamTasks(ts[idx], idx) \o AllTeamTasks(ts, idx + 1)

\* The g.Go calls of FetchAll, in program order.
GoCalls(global, ts) == (IF global THEN GlobalTasks ELSE <<>>) \o AllTeamTasks(ts, 1)

\* The assignment a function of the errgroup makes when its request succeeds.
StoreInState(st, task, data) ==
    IF task.idx # 0 THEN st
    ELSE IF task.path = "config" THEN [ st EXCEPT !.Config = [ nil |-> FALSE, m |-> data ] ]
    ELSE IF task.path = "policies" THEN [ st EXCEPT !.GlobalPolicies = data ]
    ELSE [ st EXCEPT !.GlobalQueries = data ]

StoreInTeam(team, task, data) ==
    IF task.path = "policies" THEN [ team EXCEPT !.Policies = data ]
    ELSE IF task.path = "queries" THEN [ team EXCEPT !.Queries = data ]
    ELSE IF task.path = "profiles" THEN [ team EXCEPT !.Profiles = data ]
    ELSE [ team EXCEPT !.SoftwareTitles = data ]

StoreInTeams(trs, task, data) ==
    IF task.idx = 0 THEN trs
    ELSE [ trs EXCEPT ![task.idx] = StoreInTeam(trs[task.idx], task, data) ]

\* state := &FleetState{}
NewFleetState == FleetState(<<>>, <<>>, <<>>, NilMap, <<>>, <<>>)

\* return state, err
Return(isNil, st, err) == [ nil |-> isNil, state |-> st, err |-> err ]

NotReturned == Return(TRUE, NewFleetState, NoError)

\* No call of FetchAll is made.
NoFetch ==
    /\ server = Server(0, <<>>)
    /\ wantGlobal = FALSE
    /\ fetchPc = "idle"
    /\ listedTeams = <<>>
    /\ state = NewFleetState
    /\ teamResults = <<>>
    /\ pending = <<>>
    /\ active = {}
    /\ groupErr = NoError
    /\ returned = NotReturned

Init ==
    /\ \E family \in DOMAIN Scenarios : \E sc \in Scenarios[family] :
          /\ current = sc.current
          /\ proposed = sc.proposed
          /\ teamFilter = sc.filter
    /\ results = <<>>
    /\ previous = <<>>
    /\ calls = 0
    /\ disk = FileSystem(<< >>, NoLinks)
    /\ workingDir = << Sep >>
    /\ rootArg = <<>>
    /\ defaultFile = <<>>
    /\ repoRoot = <<>>
    /\ parsed = NotParsed
    /\ NoFetch
    /\ loads = <<>>

\* A call of Diff that writes the software it diffed against, the inferred
\* fleet-maintained apps included, back into the team of current.
RunDiffStoringInferred ==
    /\ calls < MaxCalls
    /\ \E r \in Diff(current, proposed, teamFilter) : results' = r
    /\ previous' = results
    /\ calls' = calls + 1
    /\ current' =
          [ current EXCEPT !.Teams =
              [ i \in DOMAIN current.Teams |->
                  IF HasName(proposed.Teams, current.Teams[i].Name)
                  THEN [ current.Teams[i] EXCEPT !.Software =
                           CHOOSE cs \in CurrentSoftware(current.Teams[i],
                               ByName(proposed.Teams, current.Teams[i].Name),
                               current.FleetMaintainedCatalog) : TRUE ]
                  ELSE current.Teams[i] ] ]
    /\ UNCHANGED <<proposed, teamFilter>>
    /\ UNCHANGED <<disk, workingDir, rootArg, defaultFile, repoRoot, parsed>>
    /\ UNCHANGED <<fetchVars, loads>>

\* results := Diff(current, proposed, teamFilter)
RunDiff ==
    /\ calls < MaxCalls
    /\ \E r \in Diff(current, proposed, teamFilter) : results' = r
    /\ previous' = results
    /\ calls' = calls + 1
    /\ UNCHANGED <<current, proposed, teamFilter>>
    /\ UNCHANGED <<disk, workingDir, rootArg, defaultFile, repoRoot, parsed>>
    /\ UNCHANGED <<fetchVars, loads>>

Next == RunDiff

Spec == Init /\ [][Next]_vars

(***************************************************************************)
(* The state machine of the loader: ParseRepo is called on a repository,   *)
(* and called again, from any working directory with any root.             *)
(***************************************************************************)
ParseInit ==
    /\ disk \in Repositories
    /\ workingDir = << Sep >>
    /\ rootArg = <<>>
    /\ defaultFile = <<>>
    /\ repoRoot = <<>>
    /\ parsed = NotParsed
    /\ current = FleetState(<<>>, <<>>, <<>>, NilMap, <<>>, <<>>)
    /\ proposed = ParsedRepo(<<>>, NoGlobal)
    /\ teamFilter = <<>>
    /\ results = <<>>
    /\ previous = <<>>
    /\ calls = 0
    /\ NoFetch
    /\ loads = <<>>

\* parsed := ParseRepo(root, teamFilter, defaultFile)
RunParseRepo ==
    /\ calls < MaxCalls
    /\ \E call \in Calls :
          /\ workingDir' = call.cwd
          /\ rootArg' = call.root
          /\ defaultFile' = call.defaultFile
          /\ teamFilter' = call.teamFilter
          /\ repoRoot' = call.root
          /\ parsed' = ParseRepo(disk, call.cwd, call.root, call.teamFilter,
                                 call.defaultFile)
    /\ calls' = calls + 1
    /\ UNCHANGED <<disk, current, proposed, results, previous>>
    /\ UNCHANGED <<fetchVars, loads>>

ParseNext == RunParseRepo

ParseSpec == ParseInit /\ [][ParseNext]_vars

(***************************************************************************)
(* The state machine of overlapping loads: goroutines of one process call  *)
(* ParseRepo, each for a root of its own, and resolve the path: references *)
(* of their team file one at a time.  The package variable repoRoot is     *)
(* written and read without synchronisation.                               *)
(***************************************************************************)
\* The two repositories /r and /o, each with a teams/ directory.
LoadDisk ==
    [ FileSystem(BaseFiles, NoLinks) EXCEPT
        !.dirs = BaseDirs \cup { OutsideDir \o << "teams" >> } ]

\* The root arguments: /r, /o, and "" for the working directory.
LoadRoots == { RepoDir, OutsideDir, <<>> }

\* path: references of teams/t.yml: lib/p.yml of the repository, /o/x.yml
\* and /r/lib/p.yml.
LoadRefs ==
    { Up(<< "lib", "p.yml" >>), Up(Up(<< "o", "x.yml" >>)),
      Up(Up(<< "r", "lib", "p.yml" >>)) }

\* A call of ParseRepo(root, "", "") that has not started: the references
\* it will resolve, what readYAMLRef made of those it has resolved, and the
\* calls for another root that overlap with it.
Load(root_, refs) ==
    [ root |-> root_, refs |-> refs, pc |-> "called", resolved |-> <<>>,
      overlaps |-> {} ]

\* teamFile := filepath.Join(teamsDir, entry.Name())
LoadTeamFile(root_) == PathJoin(root_, << "teams", "t.yml" >>)

\* dir := filepath.Dir(path) in parseTeamFile
LoadBaseDir(root_) == PathJoin(root_, << "teams" >>)

\* The values a read of repoRoot by a call can give: the one the call wrote,
\* and, the accesses being unordered, the one written by any call that
\* overlaps with it.
VisibleRoots(i) == { loads[i].root } \cup { loads[j].root : j \in loads[i].overlaps }

LoadInit ==
    /\ loads \in { ls \in SeqsUpTo({ Load(root, refs) :
                                       root \in LoadRoots,
                                       refs \in SeqsUpTo(LoadRefs, MaxRefs) },
                                   MaxLoads) : Len(ls) = MaxLoads }
    /\ disk = LoadDisk
    /\ workingDir = RepoDir
    /\ rootArg = <<>>
    /\ defaultFile = <<>>
    /\ repoRoot = <<>>
    /\ parsed = NotParsed
    /\ current = FleetState(<<>>, <<>>, <<>>, NilMap, <<>>, <<>>)
    /\ proposed = ParsedRepo(<<>>, NoGlobal)
    /\ teamFilter = <<>>
    /\ results = <<>>
    /\ previous = <<>>
    /\ calls = 0
    /\ NoFetch

\* The variables no step of a load changes.
loadFrame ==
    <<current, proposed, teamFilter, results, previous, calls,
      disk, workingDir, rootArg, defaultFile, parsed, fetchVars>>

\* repoRoot = root (parser.go 243)
EnterParseRepo(i) ==
    /\ loads[i].pc = "called"
    /\ repoRoot' = loads[i].root
    /\ LET running == { j \in DOMAIN loads : loads[j].pc = "resolving" }
       IN  loads' = [ j \in DOMAIN loads |->
                        IF j = i
                        THEN [ loads[i] EXCEPT !.pc = "resolving",
                                               !.overlaps = running ]
                        ELSE IF j \in running
                        THEN [ loads[j] EXCEPT !.overlaps = @ \cup { i } ]
                        ELSE loads[j] ]
    /\ UNCHANGED loadFrame

\* One call of readYAMLRef (parser.go 432-451): it reads repoRoot.
ResolveRef(i) ==
    /\ loads[i].pc = "resolving"
    /\ loads[i].refs # <<>>
    /\ \E seen \in VisibleRoots(i) :
          LET r == readYAMLRef(disk, workingDir, seen, LoadBaseDir(loads[i].root),
                               Head(loads[i].refs), LoadTeamFile(loads[i].root), "")
          IN  loads' = [ loads EXCEPT
                           ![i].refs = Tail(@),
                           ![i].resolved = Append(@, [ ref |-> Head(loads[i].refs),
                                                       against |-> seen,
                                                       ok |-> r.ok,
                                                       errs |-> r.errs ]) ]
    /\ UNCHANGED repoRoot
    /\ UNCHANGED loadFrame

\* return repo, nil
ReturnParseRepo(i) ==
    /\ loads[i].pc = "resolving"
    /\ loads[i].refs = <<>>
    /\ loads' = [ loads EXCEPT ![i].pc = "returned" ]
    /\ UNCHANGED repoRoot
    /\ UNCHANGED loadFrame

LoadNext ==
    \E i \in DOMAIN loads :
        \/ EnterParseRepo(i)
        \/ ResolveRef(i)
        \/ ReturnParseRepo(i)

LoadSpec == LoadInit /\ [][LoadNext]_vars

(***************************************************************************)
(* The state machine of the client: one call of FetchAll against a server, *)
(* its goroutine and the functions of its errgroup interleaved.            *)
(***************************************************************************)
FetchInit ==
    /\ server \in Servers
    /\ wantGlobal \in BOOLEAN
    /\ fetchPc = "GetTeams"
    /\ listedTeams = <<>>
    /\ state = NewFleetState
    /\ teamResults = <<>>
    /\ pending = <<>>
    /\ active = {}
    /\ groupErr = NoError
    /\ returned = NotReturned
    /\ current = FleetState(<<>>, <<>>, <<>>, NilMap, <<>>, <<>>)
    /\ proposed = ParsedRepo(<<>>, NoGlobal)
    /\ teamFilter = <<>>
    /\ results = <<>>
    /\ previous = <<>>
    /\ calls = 0
    /\ disk = FileSystem(<< >>, NoLinks)
    /\ workingDir = << Sep >>
    /\ rootArg = <<>>
    /\ defaultFile = <<>>
    /\ repoRoot = <<>>
    /\ parsed = NotParsed
    /\ loads = <<>>

\* The variables no step of FetchAll changes.
otherVars ==
    <<current, proposed, teamFilter, results, previous, calls,
      disk, workingDir, rootArg, defaultFile, repoRoot, parsed,
      server, wantGlobal, loads>>

\* teams, err := c.GetTeams(ctx); if err != nil { return nil, err }
FetchTeams ==
    /\ fetchPc = "GetTeams"
    /\ LET r == Get(server, Endpoint("teams", 0))
       IN  IF r.err # NoError
           THEN /\ returned' = Return(TRUE, NewFleetState, r.err)
                /\ fetchPc' = "done"
                /\ UNCHANGED listedTeams
           ELSE /\ listedTeams' = r.data
                /\ fetchPc' = "GetLabels"
                /\ UNCHANGED returned
    /\ UNCHANGED <<state, teamResults, pending, active, groupErr>>
    /\ UNCHANGED otherVars

\* labels, err := c.GetLabels(ctx); if err != nil { return nil, err }
FetchLabels ==
    /\ fetchPc = "GetLabels"
    /\ LET r == Get(server, Endpoint("labels", 0))
       IN  IF r.err # NoError
           THEN /\ returned' = Return(TRUE, NewFleetState, r.err)
                /\ fetchPc' = "done"
                /\ UNCHANGED state
           ELSE /\ state' = [ state EXCEPT !.Labels = r.data ]
                /\ fetchPc' = "GetFleetMaintainedApps"
                /\ UNCHANGED returned
    /\ UNCHANGED <<listedTeams, teamResults, pending, active, groupErr>>
    /\ UNCHANGED otherVars

\* fleetMaintainedCatalog, err := c.GetFleetMaintainedApps(ctx), the test on
\* its error, and the set-up of the errgroup and of teamResults.
FetchCatalog ==
    /\ fetchPc = "GetFleetMaintainedApps"
    /\ LET r == Get(server, Endpoint("fleet_maintained_apps", 0))
       IN  IF r.err # NoError /\ ~CatalogTolerated(r.err)
           THEN /\ returned' = Return(TRUE, NewFleetState, r.err)
                /\ fetchPc' = "done"
                /\ UNCHANGED <<state, teamResults, pending>>
           ELSE /\ state' = [ state EXCEPT !.FleetMaintainedCatalog = IF r.err # NoError THEN <<>> ELSE r.data ]
                /\ teamResults' = [ i \in 1..Len(listedTeams) |-> ZeroTeam ]
                /\ pending' = GoCalls(wantGlobal, listedTeams)
                /\ fetchPc' = "Go"
                /\ UNCHANGED returned
    /\ UNCHANGED <<listedTeams, active, groupErr>>
    /\ UNCHANGED otherVars

\* The next g.Go call: it blocks while Limit functions are running.  The
\* first call of a team comes after teamResults[i] = t.
Go ==
    /\ fetchPc = "Go"
    /\ pending # <<>>
    /\ Cardinality(active) < Limit
    /\ active' = active \cup { Head(pending) }
    /\ pending' = Tail(pending)
    /\ teamResults' =
          IF Head(pending).idx # 0 /\ Head(pending).path = "policies"
          THEN [ teamResults EXCEPT ![Head(pending).idx] = listedTeams[Head(pending).idx] ]
          ELSE teamResults
    /\ UNCHANGED <<fetchPc, listedTeams, state, groupErr, returned>>
    /\ UNCHANGED otherVars

\* A function of the errgroup runs to its end: it stores what it fetched,
\* or returns the error, the first of which the group keeps.
RunTask(task) ==
    /\ task \in active
    /\ \E r \in GetUnder(server, Endpoint(task.path, task.teamID), groupErr # NoError) :
          IF r.err # NoError
          THEN /\ groupErr' = IF groupErr = NoError THEN r.err ELSE groupErr
               /\ UNCHANGED <<state, teamResults>>
          ELSE /\ state' = StoreInState(state, task, r.data)
               /\ teamResults' = StoreInTeams(teamResults, task, r.data)
               /\ UNCHANGED groupErr
    /\ active' = active \ { task }
    /\ UNCHANGED <<fetchPc, listedTeams, pending, returned>>
    /\ UNCHANGED otherVars

\* if err := g.Wait(); err != nil { return nil, err }
\* state.Teams = teamResults; return state, nil
Wait ==
    /\ fetchPc = "Go"
    /\ pending = <<>>
    /\ active = {}
    /\ IF groupErr # NoError
       THEN /\ returned' = Return(TRUE, NewFleetState, groupErr)
            /\ UNCHANGED state
       ELSE /\ state' = [ state EXCEPT !.Teams = teamResults ]
            /\ returned' = Return(FALSE, [ state EXCEPT !.Teams = teamResults ], NoError)
    /\ fetchPc' = "done"
    /\ UNCHANGED <<listedTeams, teamResults, pending, active, groupErr>>
    /\ UNCHANGED otherVars

FetchNext ==
    \/ FetchTeams
    \/ FetchLabels
    \/ FetchCatalog
    \/ Go
    \/ \E task \in active : RunTask(task)
    \/ Wait

FetchSpec == FetchInit /\ [][FetchNext]_vars

(***************************************************************************)
(* Properties.  They speak of the inputs of the call and of the result     *)
(* list it returned; the operators below read both without going through   *)
(* the operators of the model.                                             *)
(***************************************************************************)
Ran == calls > 0

NamesOf(list) == { list[i].Name : i \in 1..Len(list) }

\* The value a map keyed by name holds for a name: the last element with it.
LastNamed(list, name) ==
    list[CHOOSE i \in 1..Len(list) :
            list[i].Name = name /\ \A j \in (i + 1)..Len(list) : list[j].Name # name]

SameFold(a, b) ==
    /\ Len(a) = Len(b)
    /\ \A i \in 1..Len(a) : LowerOf(a[i]) = LowerOf(b[i])

\* The proposed teams the filter lets through, in file order.
SelectedTeams ==
    SelectSeq(proposed.Teams,
              LAMBDA t : teamFilter = <<>> \/ SameFold(t.Name, teamFilter))

HasGlobal == ~proposed.Global.nil /\ teamFilter = <<>>

GlobalOffset == IF HasGlobal THEN 1 ELSE 0

\* Every proposed team that was diffed against a remote team of its name,
\* with that remote team and the result returned for it.
PresentCases ==
    IF Ran
    THEN { [ remote   |-> LastNamed(current.Teams, SelectedTeams[i].Name),
             proposed |-> SelectedTeams[i],
             result   |-> results[GlobalOffset + i] ] :
               i \in { j \in 1..Len(SelectedTeams) :
                         SelectedTeams[j].Name \in NamesOf(current.Teams) } }
    ELSE {}

\* Every proposed team that has no remote team of its name, with its result.
AbsentCases ==
    IF Ran
    THEN { [ proposed |-> SelectedTeams[i],
             result   |-> results[GlobalOffset + i] ] :
               i \in { j \in 1..Len(SelectedTeams) :
                         SelectedTeams[j].Name \notin NamesOf(current.Teams) } }
    ELSE {}

\* Every pair of policy lists diffPolicies was called on, with the bucket it
\* returned: one for each present team, and one for the global file.
PolicyCases ==
    { [ remote |-> c.remote.Policies, proposed |-> c.proposed.Policies,
        diff |-> c.result.Policies ] : c \in PresentCases }
    \cup (IF Ran /\ HasGlobal
          THEN { [ remote |-> current.GlobalPolicies,
                   proposed |-> proposed.Global.Policies,
                   diff |-> results[1].Policies ] }
          ELSE {})

QueryCases ==
    { [ remote |-> c.remote.Queries, proposed |-> c.proposed.Queries,
        diff |-> c.result.Queries ] : c \in PresentCases }
    \cup (IF Ran /\ HasGlobal
          THEN { [ remote |-> current.GlobalQueries,
                   proposed |-> proposed.Global.Queries,
                   diff |-> results[1].Queries ] }
          ELSE {})

\* The words of a text: its maximal runs of non-whitespace characters.
RECURSIVE Words(_)
Words(s) ==
    IF s = <<>> THEN <<>>
    ELSE IF s[1] \in { " ", "\n" } THEN Words(Tail(s))
    ELSE LET rest == Words(Tail(s))
         IN  IF Len(s) > 1 /\ s[2] \notin { " ", "\n" }
             THEN << <<s[1]>> \o rest[1] >> \o Tail(rest)
             ELSE << <<s[1]>> >> \o rest

\* Two texts that differ at most in whitespace runs and at their ends.
SameWords(a, b) == Words(a) = Words(b)

\* C9 (deletion impact): in every bucket diffPolicies returns, the Deleted
\* list holds, in remote order, one entry for each remote policy whose name
\* no proposed policy carries; the entry's HostCount is the sum of that
\* policy's passing and failing host counts, and its Warning is non-empty
\* exactly when one of the two counts is non-zero.
DeletionImpact ==
    \A c \in PolicyCases :
        LET gone == SelectSeq(c.remote,
                              LAMBDA r : r.Name \notin NamesOf(c.proposed))
        IN  /\ Len(c.diff.Deleted) = Len(gone)
            /\ \A i \in 1..Len(gone) :
                 /\ c.diff.Deleted[i].Name = gone[i].Name
                 /\ c.diff.Deleted[i].HostCount
                        = gone[i].PassingHostCount + gone[i].FailingHostCount
                 /\ (c.diff.Deleted[i].Warning # <<>>)
                        <=> (gone[i].PassingHostCount # 0
                             \/ gone[i].FailingHostCount # 0)

\* C9 happens: a bucket deletes one policy that hosts pass and fail, with a
\* warning, and one policy no host runs, without one.
DeletionImpactSeen ==
    \E c \in PolicyCases :
        \E i, j \in 1..Len(c.diff.Deleted) :
            /\ c.diff.Deleted[i].HostCount = 2 * MaxHosts
            /\ c.diff.Deleted[i].Warning # <<>>
            /\ c.diff.Deleted[j].HostCount = 0
            /\ c.diff.Deleted[j].Warning = <<>>

\* C3 (normalization law), policies: when every proposed policy of a name
\* has the same words in a free-text field (query, description, resolution)
\* as the remote policy of that name, no Modified entry of that name lists
\* the field; when that holds of all three fields and platform and critical
\* are equal too, there is no Modified entry of that name.
\* Queries: the same for the query text, with interval, platform and logging
\* as the other fields.
NormalizationLaw ==
    /\ \A c \in PolicyCases :
         \A n \in NamesOf(c.remote) \cap NamesOf(c.proposed) :
            LET r     == LastNamed(c.remote, n)
                props == { p \in Range(c.proposed) : p.Name = n }
                mods  == { m \in Range(c.diff.Modified) : m.Name = n }
                sameQ == \A p \in props : SameWords(r.Query, p.Query)
                sameD == \A p \in props : SameWords(r.Description, p.Description)
                sameR == \A p \in props : SameWords(r.Resolution, p.Resolution)
                sameO == \A p \in props : /\ r.Platform = p.Platform
                                          /\ r.Critical = p.Critical
            IN  /\ sameQ => \A m \in mods : "query" \notin DOMAIN m.Fields
                /\ sameD => \A m \in mods : "description" \notin DOMAIN m.Fields
                /\ sameR => \A m \in mods : "resolution" \notin DOMAIN m.Fields
                /\ (sameQ /\ sameD /\ sameR /\ sameO) => mods = {}
    /\ \A c \in QueryCases :
         \A n \in NamesOf(c.remote) \cap NamesOf(c.proposed) :
            LET r     == LastNamed(c.remote, n)
                props == { q \in Range(c.proposed) : q.Name = n }
                mods  == { m \in Range(c.diff.Modified) : m.Name = n }
                sameQ == \A q \in props : SameWords(r.Query, q.Query)
                sameO == \A q \in props :
                            /\ r.Interval = q.Interval
                            /\ r.Platform = q.Platform
                            /\ (q.Logging = <<>> \/ r.Logging = q.Logging)
            IN  /\ sameQ => \A m \in mods : "query" \notin DOMAIN m.Fields
                /\ (sameQ /\ sameO) => mods = {}

\* C3 happens: a policy whose remote and proposed query texts are different
\* strings with the same words is Modified, for its platform alone.
NormalizationLawSeen ==
    /\ Ran
    /\ \E c \in PolicyCases :
         /\ Len(c.remote) = 1 /\ Len(c.proposed) = 1
         /\ c.remote[1].Name = c.proposed[1].Name
         /\ c.remote[1].Query # c.proposed[1].Query
         /\ SameWords(c.remote[1].Query, c.proposed[1].Query)
         /\ c.remote[1].Platform # c.proposed[1].Platform
         /\ Len(c.diff.Modified) = 1
         /\ DOMAIN c.diff.Modified[1].Fields = { "platform" }

ProfileCases ==
    { [ remote |-> c.remote.Profiles, proposed |-> c.proposed.Profiles,
        diff |-> c.result.Profiles ] : c \in PresentCases }

\* The names a bucket lists.
BucketNames(d) == NamesOf(d.Added) \cup NamesOf(d.Modified) \cup NamesOf(d.Deleted)

Disjoint(d) ==
    /\ NamesOf(d.Added) \cap NamesOf(d.Modified) = {}
    /\ NamesOf(d.Added) \cap NamesOf(d.Deleted) = {}
    /\ NamesOf(d.Modified) \cap NamesOf(d.Deleted) = {}

\* Added holds the proposed-only names, Deleted the remote-only names, and
\* Modified only names of both sides, once for each item of the name.
SplitByName(c) ==
    LET R == NamesOf(c.remote)
        P == NamesOf(c.proposed)
        count(list, S) == Cardinality({ i \in 1..Len(list) : list[i].Name \in S })
    IN  /\ NamesOf(c.diff.Added) = P \ R
        /\ NamesOf(c.diff.Deleted) = R \ P
        /\ NamesOf(c.diff.Modified) \subseteq P \cap R
        /\ Len(c.diff.Added) = count(c.proposed, P \ R)
        /\ Len(c.diff.Deleted) = count(c.remote, R \ P)
        /\ Len(c.diff.Modified) <= count(c.proposed, P \cap R)
        /\ Disjoint(c.diff)

\* The key sets of the three software sub-collections of a remote and a
\* proposed team, and the names their entries are listed under.
SoftwareKeys(remote, prop) ==
    [ packages |-> [ R |-> KeysOf(remote.Packages, CurrentPackageKey),
                     P |-> KeysOf(prop.Packages, ProposedPackageKey) ],
      fleet    |-> [ R |-> KeysOf(remote.FleetMaintained.elems, FleetAppKey),
                     P |-> KeysOf(prop.FleetMaintained, FleetAppKey) ],
      apps     |-> [ R |-> KeysOf(remote.AppStoreApps, AppStoreKey),
                     P |-> KeysOf(prop.AppStoreApps, AppStoreKey) ] ]

ListedAs(sub, key) ==
    CASE sub = "packages" -> normalizeSoftwarePath(key)
      [] sub = "fleet"    -> FleetAppPrefix \o key
      [] sub = "apps"     -> AppStorePrefix \o key

\* The software bucket splits each sub-collection by key: it lists each
\* proposed-only key once in Added, each remote-only key once in Deleted,
\* and in Modified only keys of both sides, each at most once.
SoftwareSplitByKey(remote, prop, d) ==
    LET ks   == SoftwareKeys(remote, prop)
        subs == { "packages", "fleet", "apps" }
        names(part(_)) ==
            UNION { { ListedAs(sub, k) : k \in part(ks[sub]) } : sub \in subs }
        size(part(_)) ==
            Cardinality(part(ks.packages)) + Cardinality(part(ks.fleet))
                + Cardinality(part(ks.apps))
        added(k)   == k.P \ k.R
        deleted(k) == k.R \ k.P
        both(k)    == k.P \cap k.R
    IN  /\ NamesOf(d.Added) = names(added)
        /\ NamesOf(d.Deleted) = names(deleted)
        /\ NamesOf(d.Modified) \subseteq names(both)
        /\ Len(d.Added) = size(added)
        /\ Len(d.Deleted) = size(deleted)
        /\ Len(d.Modified) <= size(both)

Ascending(list) ==
    \A i, j \in 1..Len(list) : i < j => ~StrLess(list[j].Name, list[i].Name)

NameList(list) == [ i \in 1..Len(list) |-> list[i].Name ]

\* a can be had from b by leaving elements out.
RECURSIVE IsSubSeq(_, _)
IsSubSeq(a, b) ==
    IF a = <<>> THEN TRUE
    ELSE IF b = <<>> THEN FALSE
    ELSE IF a[1] = b[1] THEN IsSubSeq(Tail(a), Tail(b))
    ELSE IsSubSeq(a, Tail(b))

\* Added and Modified follow the proposed list, Deleted the remote list.
InListOrder(c) ==
    LET R == NamesOf(c.remote)
        P == NamesOf(c.proposed)
    IN  /\ NameList(c.diff.Added)
             = NameList(SelectSeq(c.proposed, LAMBDA x : x.Name \notin R))
        /\ IsSubSeq(NameList(c.diff.Modified),
                    NameList(SelectSeq(c.proposed, LAMBDA x : x.Name \in R)))
        /\ NameList(c.diff.Deleted)
             = NameList(SelectSeq(c.remote, LAMBDA x : x.Name \notin P))

\* C6 (sorted buckets), as the code has it: the Added, Modified and Deleted
\* lists of every software bucket are in ascending order of Name, whatever
\* the order of the input lists; those of the policy, query and profile
\* buckets are in the order of the input lists (Added and Modified in the
\* order of the proposed list, Deleted in the order of the remote list).
SortedBuckets ==
    /\ \A c \in PresentCases :
         /\ Ascending(c.result.Software.Added)
         /\ Ascending(c.result.Software.Modified)
         /\ Ascending(c.result.Software.Deleted)
    /\ \A c \in PolicyCases : InListOrder(c)
    /\ \A c \in QueryCases : InListOrder(c)
    /\ \A c \in ProfileCases : InListOrder(c)

\* C6 happens: the proposed side lists two new packages in descending order
\* of their keys, and the software bucket has them Added in ascending order.
SortedBucketsSeen ==
    \E c \in PresentCases :
        LET pkgs == c.proposed.Software.Packages
        IN  /\ Len(pkgs) = 2
            /\ StrLess(ProposedPackageKey(pkgs[2]), ProposedPackageKey(pkgs[1]))
            /\ Len(c.result.Software.Added) = 2
            /\ StrLess(c.result.Software.Added[1].Name,
                       c.result.Software.Added[2].Name)

\* C6 as the specification states it: in every result, the Added, Modified
\* and Deleted lists of the policy, query, software and profile buckets are
\* in ascending order of Name.
SortedBucketsAsStated ==
    Ran =>
        \A i \in 1..Len(results) :
            \A d \in { results[i].Policies, results[i].Queries,
                       results[i].Software, results[i].Profiles } :
                Ascending(d.Added) /\ Ascending(d.Modified) /\ Ascending(d.Deleted)

\* The remote and the proposed side of a team are identical: the same
\* identity keys in every collection, and the same field values in every
\* remote and proposed item that share a key.
Identical(remote, prop) ==
    LET ks == SoftwareKeys(remote.Software, prop.Software)
    IN  /\ NamesOf(remote.Policies) = NamesOf(prop.Policies)
        /\ \A r \in Range(remote.Policies), p \in Range(prop.Policies) :
              r.Name = p.Name =>
                  /\ r.Query = p.Query
                  /\ r.Description = p.Description
                  /\ r.Resolution = p.Resolution
                  /\ r.Platform = p.Platform
                  /\ r.Critical = p.Critical
        /\ NamesOf(remote.Queries) = NamesOf(prop.Queries)
        /\ \A r \in Range(remote.Queries), q \in Range(prop.Queries) :
              r.Name = q.Name =>
                  /\ r.Query = q.Query
                  /\ r.Interval = q.Interval
                  /\ r.Platform = q.Platform
                  /\ r.Logging = q.Logging
        /\ NamesOf(remote.Profiles) = NamesOf(prop.Profiles)
        /\ remote.Software.FleetMaintained.nil
              => prop.Software.FleetMaintained = <<>>
        /\ \A sub \in DOMAIN ks : ks[sub].R = ks[sub].P
        /\ \A r \in Range(remote.Software.Packages),
              p \in Range(prop.Software.Packages) :
              CurrentPackageKey(r) = ProposedPackageKey(p) =>
                  /\ r.URL = p.URL
                  /\ r.HashSHA256 = p.HashSHA256
                  /\ r.SelfService = p.SelfService
        /\ \A r \in Range(remote.Software.FleetMaintained.elems),
              p \in Range(prop.Software.FleetMaintained) :
              FleetAppKey(r) = FleetAppKey(p) => r.SelfService = p.SelfService
        /\ \A r \in Range(remote.Software.AppStoreApps),
              p \in Range(prop.Software.AppStoreApps) :
              AppStoreKey(r) = AppStoreKey(p) => r.SelfService = p.SelfService

Empty(d) == d.Added = <<>> /\ d.Modified = <<>> /\ d.Deleted = <<>>

Unchanged(result) ==
    /\ Empty(result.Policies)
    /\ Empty(result.Queries)
    /\ Empty(result.Software)
    /\ Empty(result.Profiles)
    /\ result.Labels.Valid = <<>>
    /\ result.Labels.Missing = <<>>
    /\ result.Config = <<>>

\* C2 (no-op law): the result of a team whose remote and proposed sides are
\* identical has four empty buckets, empty Valid and Missing label lists and
\* an empty Config change list.
NoOpLaw == \A c \in PresentCases : Identical(c.remote, c.proposed) => Unchanged(c.result)

\* C2 happens: identical sides with a policy that refers to labels.
NoOpLawSeen ==
    \E c \in PresentCases :
        /\ Identical(c.remote, c.proposed)
        /\ \E p \in Range(c.proposed.Policies) : p.LabelsIncludeAny # <<>>
        /\ Unchanged(c.result)

\* C2 happens for software too: identical sides with a package.
NoOpLawSeenForSoftware ==
    \E c \in PresentCases :
        /\ Identical(c.remote, c.proposed)
        /\ c.proposed.Software.Packages # <<>>
        /\ Unchanged(c.result)

\* C5 (determinism): the second call of Diff on the same inputs returns the
\* list the first call returned, entry for entry.
Determinism == calls >= 2 => results = previous

\* C5 fails in this way: two calls return results that are the same but for
\* the order of the global result's Config change list.
ConfigOrderDiffers ==
    /\ calls >= 2
    /\ Len(results) = Len(previous)
    /\ results[1].Config # previous[1].Config
    /\ Range(results[1].Config) = Range(previous[1].Config)
    /\ [ results EXCEPT ![1].Config = <<>> ] = [ previous EXCEPT ![1].Config = <<>> ]

\* The leaves of a proposed section: every dot-joined key path that ends at
\* a value that is not a map, with that value.
RECURSIVE LeavesOf(_, _)
LeavesOf(m, prefix) ==
    UNION { LET path == IF prefix = <<>> THEN k ELSE prefix \o <<".">> \o k
            IN  IF m[k].kind = "map" THEN LeavesOf(m[k].v, path)
                ELSE { [ Key |-> path, Value |-> m[k] ] }
            : k \in DOMAIN m }

HasMarker(str) == \E i \in 1..Len(str) : str[i] = "$"

\* The proposed sections that are there, by name.
ProposedSections ==
    LET g == proposed.Global
    IN  { sec \in { [ Name |-> OrgSettings, Map |-> g.OrgSettings ],
                    [ Name |-> AgentOptions, Map |-> g.AgentOptions ],
                    [ Name |-> Controls, Map |-> g.Controls ] } : ~sec.Map.nil }

\* C7 (placeholder skip): the Config change list of the global result has no
\* entry for a leaf of a proposed section (org_settings, agent_options,
\* controls) whose printed value contains '$'.
PlaceholderSkip ==
    (Ran /\ HasGlobal) =>
        \A sec \in ProposedSections :
            \A leaf \in LeavesOf(sec.Map.m, <<>>) :
                HasMarker(Sprint(leaf.Value)) =>
                    \A ch \in Range(results[1].Config) :
                        ~(/\ ch.Section = sec.Name
                          /\ ch.Key = leaf.Key
                          /\ ch.New = Sprint(leaf.Value))

\* C7 happens: a leaf with a '$' after its first character, under a key the
\* remote side has another value for or does not have, is left out of a
\* Config change list that lists another leaf.
PlaceholderSkipSeen ==
    /\ Ran /\ HasGlobal
    /\ ~current.Config.nil
    /\ results[1].Config # <<>>
    /\ \E sec \in ProposedSections :
         \E leaf \in LeavesOf(sec.Map.m, <<>>) :
            /\ HasMarker(Sprint(leaf.Value))
            /\ Sprint(leaf.Value)[1] # "$"
            /\ \A ch \in Range(results[1].Config) :
                  ch.Section = sec.Name => ch.Key # leaf.Key

\* The names a software bucket lists the proposed items of a team under.
DeclaredSoftware(prop) ==
    { ListedAs("packages", k) : k \in KeysOf(prop.Packages, ProposedPackageKey) }
    \cup { ListedAs("fleet", k) : k \in KeysOf(prop.FleetMaintained, FleetAppKey) }
    \cup { ListedAs("apps", k) : k \in KeysOf(prop.AppStoreApps, AppStoreKey) }

\* A message that is a note, not an error: it starts with "info:".
IsInfo(msg) == msg # <<>> /\ msg[1] = "info: team "

\* C8 (new group), as the specification states it: the result of a proposed
\* team that has no remote team of its name, and is not called "No team",
\* lists every declared policy, query, software item and profile as Added,
\* lists nothing as Modified or Deleted, and carries exactly one message,
\* an informational one.
NewGroup ==
    \A c \in AbsentCases :
        ~SameFold(c.proposed.Name, NoTeam) =>
            /\ NamesOf(c.proposed.Policies) \subseteq NamesOf(c.result.Policies.Added)
            /\ NamesOf(c.proposed.Queries) \subseteq NamesOf(c.result.Queries.Added)
            /\ DeclaredSoftware(c.proposed.Software)
                   \subseteq NamesOf(c.result.Software.Added)
            /\ NamesOf(c.proposed.Profiles) \subseteq NamesOf(c.result.Profiles.Added)
            /\ \A d \in { c.result.Policies, c.result.Queries,
                          c.result.Software, c.result.Profiles } :
                  d.Modified = <<>> /\ d.Deleted = <<>>
            /\ Len(c.result.Errors) = 1
            /\ IsInfo(c.result.Errors[1])

\* C8 fails in this way: a new team declares a package and a profile, and
\* its result has policies and queries Added and one informational message,
\* but an empty software bucket and an empty profile bucket.
NewGroupWithoutSoftware ==
    \E c \in AbsentCases :
        /\ ~SameFold(c.proposed.Name, NoTeam)
        /\ c.proposed.Software.Packages # <<>>
        /\ c.proposed.Profiles # <<>>
        /\ NamesOf(c.result.Policies.Added) = NamesOf(c.proposed.Policies)
        /\ NamesOf(c.result.Queries.Added) = NamesOf(c.proposed.Queries)
        /\ Empty(c.result.Software)
        /\ Empty(c.result.Profiles)
        /\ Len(c.result.Errors) = 1
        /\ IsInfo(c.result.Errors[1])

\* The number of catalog apps filed under the name and platform of a title.
CatalogCount(title, catalog) ==
    LET key == fleetCatalogKey(title.Name, title.SoftwarePackage.Platform)
    IN  Cardinality({ i \in 1..Len(catalog) :
                        /\ key # <<>>
                        /\ fleetCatalogKey(catalog[i].Name, catalog[i].Platform)
                               = key })

\* The apps of a team cannot be reconstructed: there is no catalog, or
\* there are no software titles, or every title matches several catalog apps.
CannotInfer(team, catalog) ==
    \/ catalog = <<>>
    \/ team.SoftwareTitles = <<>>
    \/ \A t \in Range(team.SoftwareTitles) : CatalogCount(t, catalog) >= 2

\* The entries of a software list that are fleet-maintained apps.
FleetEntries(list) ==
    SelectSeq(list, LAMBDA e : /\ Len(e.Name) >= Len(FleetAppPrefix)
                               /\ SubSeq(e.Name, 1, Len(FleetAppPrefix))
                                      = FleetAppPrefix)

\* C10 (conservative inference fallback): when the API gave null for the
\* fleet-maintained apps of a team, the proposed team declares at least one
\* app and the apps cannot be reconstructed, the software bucket lists one
\* Added entry for each declared slug (lower-cased and trimmed, under the
\* name "fleet app <slug>"), lists no fleet-maintained app as Modified or
\* Deleted, and the result carries no message but those about duplicate
\* profile names.
InferenceFallback ==
    \A c \in PresentCases :
        (/\ c.remote.Software.FleetMaintained.nil
         /\ c.proposed.Software.FleetMaintained # <<>>
         /\ CannotInfer(c.remote, current.FleetMaintainedCatalog))
        =>
            LET slugs == { TrimSpace(ToLower(a.Slug)) :
                               a \in Range(c.proposed.Software.FleetMaintained) }
                             \ { <<>> }
                added == FleetEntries(c.result.Software.Added)
            IN  /\ NamesOf(added) = { FleetAppPrefix \o k : k \in slugs }
                /\ Len(added) = Cardinality(slugs)
                /\ \A i \in 1..Len(added) :
                      \E a \in Range(c.proposed.Software.FleetMaintained) :
                          added[i].Fields["slug"].New = a.Slug
                /\ FleetEntries(c.result.Software.Modified) = <<>>
                /\ FleetEntries(c.result.Software.Deleted) = <<>>
                /\ \A msg \in Range(c.result.Errors) :
                      \E p \in Range(c.proposed.Profiles) :
                          msg = DuplicateProfileWarning(p)

\* C10 happens: the API gave null, the team has titles and there is a
\* catalog, but the only candidates are ambiguous, and the two declared apps
\* are both Added.
InferenceFallbackSeen ==
    \E c \in PresentCases :
        /\ c.remote.Software.FleetMaintained.nil
        /\ Len(c.proposed.Software.FleetMaintained) = 2
        /\ current.FleetMaintainedCatalog # <<>>
        /\ c.remote.SoftwareTitles # <<>>
        /\ CannotInfer(c.remote, current.FleetMaintainedCatalog)
        /\ Len(FleetEntries(c.result.Software.Added)) = 2
        /\ c.result.Errors = <<>>

\* The path: references the latest call of ParseRepo came to: those of the
\* team files in teams/ and those of the default file, each with the file
\* that holds it as ParseRepo names that file, and its section.
FileAt(path) ==
    LET real == EvalSymlinks(disk, PathAbs(workingDir, path))
    IN  IF real.ok /\ real.path \in DOMAIN disk.files
        THEN disk.files[real.path]
        ELSE [ kind |-> "none" ]

ReferencesIn(path, kind, sections) ==
    IF FileAt(path).kind # kind THEN {}
    ELSE UNION { { [ file |-> path, section |-> section,
                     ref |-> FileAt(path)[section][i] ] :
                       i \in { j \in DOMAIN FileAt(path)[section] :
                                 FileAt(path)[section][j] # <<>> } } :
                 section \in sections }

References ==
    IF calls = 0 \/ ~EvalSymlinks(disk, PathAbs(workingDir,
                                     PathJoin(rootArg, << "teams" >>))).ok
    THEN {}
    ELSE UNION { IF FileAt(PathJoin(rootArg, << "teams", TeamFileNames[i] >>)).kind = "team"
                    /\ FileAt(PathJoin(rootArg, << "teams", TeamFileNames[i] >>)).name = <<>>
                 THEN {}
                 ELSE ReferencesIn(PathJoin(rootArg, << "teams", TeamFileNames[i] >>),
                                   "team",
                                   { "policies", "queries", "packages", "macos",
                                     "windows" }) :
                   i \in DOMAIN TeamFileNames }
         \cup ReferencesIn(IF defaultFile # <<>> THEN defaultFile
                           ELSE PathJoin(rootArg, << "default.yml" >>),
                           "default", { "policies", "queries", "labels" })

ResolvedOf(r) == PathJoin(PathDir(r.file), r.ref)

\* The symlink-evaluated target of a reference, when there is one.
TargetOf(r) == EvalSymlinks(disk, PathAbs(workingDir, ResolvedOf(r)))

\* The directory the root argument stands for.
RealRoot ==
    LET real == EvalSymlinks(disk, PathAbs(workingDir, rootArg))
    IN  IF real.ok THEN real.path ELSE PathAbs(workingDir, rootArg)

\* path is dir or lies below it.
Below(path, dir) == Len(path) >= Len(dir) /\ SubSeq(path, 1, Len(dir)) = dir

Escaping == { r \in References : TargetOf(r).ok /\ ~Below(TargetOf(r).path, RealRoot) }

\* The files the items of the returned model say they come from.
Sourced ==
    UNION { { t.Policies[i].SourceFile : i \in DOMAIN t.Policies }
            \cup { t.Queries[i].SourceFile : i \in DOMAIN t.Queries }
            \cup { t.Packages[i].SourceFile : i \in DOMAIN t.Packages }
            \cup { t.Profiles[i].Path : i \in DOMAIN t.Profiles } :
              t \in Range(parsed.repo.Teams) }
    \cup { parsed.repo.Global.Policies[i].SourceFile :
             i \in DOMAIN parsed.repo.Global.Policies }
    \cup { parsed.repo.Global.Queries[i].SourceFile :
             i \in DOMAIN parsed.repo.Global.Queries }
    \cup { parsed.repo.Labels[i].SourceFile : i \in DOMAIN parsed.repo.Labels }

\* The reference was refused: an escape error of its file names it, no item
\* of the model comes from it, and its target was not read.
Refused(r) ==
    /\ \E i \in DOMAIN parsed.repo.Errors :
         /\ parsed.repo.Errors[i].File = r.file
         /\ Len(parsed.repo.Errors[i].Message) = 4
         /\ parsed.repo.Errors[i].Message[1] = "path "
         /\ parsed.repo.Errors[i].Message[2] = ResolvedOf(r)
    /\ ResolvedOf(r) \notin Sourced
    /\ TargetOf(r).path \notin parsed.reads

\* The policy and query references of the returned teams and of the global
\* file whose target is a list inside the root.
Honoured ==
    { r \in References \ Escaping :
        /\ r.section \in { "policies", "queries" }
        /\ TargetOf(r).ok
        /\ TargetOf(r).path \in DOMAIN disk.files
        /\ disk.files[TargetOf(r).path].kind = "list"
        /\ \/ \E t \in Range(parsed.repo.Teams) : t.SourceFile = r.file
           \/ ~parsed.repo.Global.nil /\ parsed.repo.Global.SourceFile = r.file }

PathContainmentUnderNamedRoot ==
    rootArg # <<>> =>
        \A r \in Escaping :
            /\ Refused(r)
            /\ \A o \in Honoured : o.file = r.file => ResolvedOf(o) \in Sourced

\* C4 happens: a call refuses one reference that escapes over a symbolic
\* link and resolves a reference inside the root after it.
PathContainmentSeen ==
    /\ rootArg # <<>>
    /\ \E r \in Escaping :
         /\ ResolvedOf(r) = PathJoin(rootArg, << "lib", "s.yml" >>)
         /\ Refused(r)
         /\ \E o \in Honoured : o.file = r.file /\ ResolvedOf(o) \in Sourced

ResultListStructure ==
    Ran =>
        /\ Len(results) = GlobalOffset + Len(SelectedTeams)
        /\ HasGlobal => results[1].Team = GlobalTeam
        /\ \A i \in 1..Len(SelectedTeams) :
              results[GlobalOffset + i].Team = SelectedTeams[i].Name
        /\ \A t \in Range(current.Teams) :
              t.Name \notin NamesOf(proposed.Teams) =>
                  \A i \in (GlobalOffset + 1)..Len(results) :
                      results[i].Team # t.Name

\* C11 happens: a filter in another letter case than the team's name lets
\* through one of two proposed teams, a global file was parsed and has no
\* result, and a remote team is not declared in the proposal.
ResultListUnderFilter ==
    /\ Ran
    /\ teamFilter # <<>>
    /\ ~proposed.Global.nil
    /\ Len(proposed.Teams) = 2
    /\ Len(SelectedTeams) = 1
    /\ SelectedTeams[1].Name # teamFilter
    /\ Len(results) = 1
    /\ \E t \in Range(current.Teams) : t.Name \notin NamesOf(proposed.Teams)

\* C11 happens without a filter: the global result is followed by the
\* results of two proposed teams.
ResultListWithGlobal ==
    /\ Ran
    /\ HasGlobal
    /\ Len(SelectedTeams) = 2
    /\ Len(results) = 3
    /\ results[1].Team = GlobalTeam

(***************************************************************************)
(* The reserved team "No team".                                            *)
(***************************************************************************)
\* The results of the proposed teams named "No team", in any letter case,
\* that have no remote team of their name.
SentinelCases == { c \in AbsentCases : SameFold(c.proposed.Name, NoTeam) }

\* The note that counts the policies and queries of a team.
CountNote(team) ==
    << SprintUint(Len(team.Policies)), " policies, ",
       SprintUint(Len(team.Queries)),
       " queries configured (no API diff available for \"No team\")" >>

NothingListed(result) ==
    /\ \A d \in { result.Policies, result.Queries,
                  result.Software, result.Profiles } : Empty(d)
    /\ result.Labels.Valid = <<>>
    /\ result.Labels.Missing = <<>>

\* C12 (sentinel group), amended: the result of a proposed team named
\* "No team" in any letter case that has no remote team of its name has
\* empty policy, query, software and profile buckets and empty label lists;
\* it carries the note counting its policies and queries, and nothing else,
\* when it declares a policy or a query, and no message at all when it
\* declares neither.  It never carries the "does not exist yet" message.
SentinelGroup ==
    \A c \in SentinelCases :
        /\ NothingListed(c.result)
        /\ c.result.Errors =
               IF c.proposed.Policies # <<>> \/ c.proposed.Queries # <<>>
               THEN << CountNote(c.proposed) >>
               ELSE <<>>
        /\ \A i \in 1..Len(c.result.Errors) : ~IsInfo(c.result.Errors[i])

\* C12 happens: a team named "no team" declares a policy that refers to a
\* label, a query, software and a profile; its result lists nothing and
\* carries the one note.
SentinelGroupSeen ==
    \E c \in SentinelCases :
        /\ c.proposed.Name # NoTeam
        /\ \E p \in Range(c.proposed.Policies) : p.LabelsIncludeAny # <<>>
        /\ c.proposed.Queries # <<>>
        /\ c.proposed.Profiles # <<>>
        /\ NothingListed(c.result)
        /\ c.result.Errors = << CountNote(c.proposed) >>

\* C12 as the specification states it: the result lists nothing and carries
\* exactly one message, the resource-count note.
SentinelGroupAsStated ==
    \A c \in SentinelCases :
        /\ NothingListed(c.result)
        /\ Len(c.result.Errors) = 1
        /\ c.result.Errors[1] = CountNote(c.proposed)

(***************************************************************************)
(* Label validation.                                                       *)
(***************************************************************************)
\* Every proposed team that has a result, with that result.
TeamCases ==
    { [ proposed |-> c.proposed, result |-> c.result ] : c \in PresentCases }
    \cup AbsentCases

\* The labels a policy refers to, in its include or its exclude list.
LabelsOf(policy) ==
    Range(policy.LabelsIncludeAny) \cup Range(policy.LabelsExcludeAny)

\* The positions of the proposed policies of a case that are listed as
\* Added, Modified or Deleted and refer to a label.
ChangedReferrers(c, label) ==
    { i \in 1..Len(c.proposed.Policies) :
        /\ c.proposed.Policies[i].Name \in BucketNames(c.result.Policies)
        /\ label \in LabelsOf(c.proposed.Policies[i]) }

FirstOf(S) == CHOOSE i \in S : \A j \in S : i <= j

\* C13 (label cross-reference): the Valid and Missing lists of a team's
\* result name exactly the labels that the proposed policies listed as
\* Added, Modified or Deleted refer to, each once; a name is in Valid, with
\* the host count the remote catalog holds for it, when the catalog has a
\* label of that name, and in Missing otherwise; it is attributed to the
\* first of those policies that refers to it.  A label that only unchanged
\* policies refer to is in neither list.
LabelCrossReference ==
    \A c \in TeamCases :
        LET listed == c.result.Labels.Valid \o c.result.Labels.Missing
        IN  /\ NamesOf(listed) =
                   { n \in UNION { LabelsOf(p) : p \in Range(c.proposed.Policies) } :
                       ChangedReferrers(c, n) # {} }
            /\ \A i, j \in 1..Len(listed) :
                  listed[i].Name = listed[j].Name => i = j
            /\ \A r \in Range(c.result.Labels.Valid) :
                  /\ r.Name \in NamesOf(current.Labels)
                  /\ r.HostCount = LastNamed(current.Labels, r.Name).HostCount
            /\ \A r \in Range(c.result.Labels.Missing) :
                  r.Name \notin NamesOf(current.Labels)
            /\ \A r \in Range(listed) :
                  /\ ChangedReferrers(c, r.Name) # {}
                  /\ r.ReferencedBy =
                        c.proposed.Policies[FirstOf(ChangedReferrers(c, r.Name))].Name

\* C13 happens: an unchanged policy refers to two labels and an added
\* policy after it to one of them; that one is listed once, attributed to
\* the added policy, and the other is in neither list.
LabelCrossReferenceSeen ==
    \E c \in TeamCases :
        \E i, j \in 1..Len(c.proposed.Policies) :
            /\ i < j
            /\ c.proposed.Policies[i].Name \notin BucketNames(c.result.Policies)
            /\ c.proposed.Policies[j].Name \in NamesOf(c.result.Policies.Added)
            /\ \E n \in LabelsOf(c.proposed.Policies[i]) :
                  /\ n \in LabelsOf(c.proposed.Policies[j])
                  /\ \E r \in Range(c.result.Labels.Valid) :
                        /\ r.Name = n
                        /\ r.ReferencedBy = c.proposed.Policies[j].Name
            /\ \E n \in LabelsOf(c.proposed.Policies[i]) :
                  n \notin NamesOf(c.result.Labels.Valid \o c.result.Labels.Missing)

\* C13 happens: two changed policies refer to the same label, which is
\* listed once as Missing under the first and never under the second.
LabelCrossReferenceSeenTwice ==
    \E c \in TeamCases :
        \E n \in NamesOf(c.result.Labels.Missing) :
            /\ Cardinality(ChangedReferrers(c, n)) = 2
            /\ c.proposed.Policies[1].Name # c.proposed.Policies[2].Name
            /\ LastNamed(c.result.Labels.Missing, n).ReferencedBy
                   = c.proposed.Policies[1].Name

(***************************************************************************)
(* Identity keys in the model ParseRepo returns.                           *)
(***************************************************************************)
\* No two elements of the list have the same key.
DistinctBy(list, Key(_)) ==
    \A i, j \in 1..Len(list) : Key(list[i]) = Key(list[j]) => i = j

NameKey(item) == item.Name

RefPathKey(package) == package.RefPath

\* The references of a section of the team file a returned team comes from.
DeclaredIn(team, section) == FileAt(team.SourceFile)[section]

\* C14 (identity uniqueness), as the specification states it: in every team
\* of the model ParseRepo returns, no two policies have the same name, no
\* two queries have the same name, no two software packages the same
\* reference, and no two profiles the same name.
IdentityUniqueness ==
    \A t \in Range(parsed.repo.Teams) :
        /\ DistinctBy(t.Policies, NameKey)
        /\ DistinctBy(t.Queries, NameKey)
        /\ DistinctBy(t.Packages, RefPathKey)
        /\ DistinctBy(t.Profiles, NameKey)

\* C14 fails in this way: under a named root, a team file refers to the
\* same policy file twice; the returned team holds two policies of one
\* name and no error is recorded.
DuplicatePolicyKept ==
    /\ rootArg # <<>>
    /\ parsed.repo.Errors = <<>>
    /\ \E t \in Range(parsed.repo.Teams) :
          /\ Len(DeclaredIn(t, "policies")) = 2
          /\ DeclaredIn(t, "policies")[1] = DeclaredIn(t, "policies")[2]
          /\ Len(t.Policies) = 2
          /\ t.Policies[1].Name = t.Policies[2].Name

\* The same for profiles: one profile file referred to twice gives two
\* profiles of one name and no error.
DuplicateProfileKept ==
    /\ rootArg # <<>>
    /\ parsed.repo.Errors = <<>>
    /\ \E t \in Range(parsed.repo.Teams) :
          /\ Len(t.Profiles) = 2
          /\ t.Profiles[1].Name = t.Profiles[2].Name

\* What holds of C14: the software package references of a team are
\* pairwise distinct.
PackageReferencesUnique ==
    \A t \in Range(parsed.repo.Teams) : DistinctBy(t.Packages, RefPathKey)

(***************************************************************************)
(* Software packages referred to more than once.                           *)
(***************************************************************************)
\* A relative path without its leading "..", an absolute one without its
\* leading separator.
RECURSIVE WithoutParents(_)
WithoutParents(path) ==
    IF path # <<>> /\ path[1] \in { "..", Sep } /\ Len(path) >= 2
    THEN WithoutParents(Tail(path))
    ELSE path

\* The canonical path of a package reference of a file: the path of the
\* referenced file relative to the root, or the reference as written when
\* no root is named or the file has no path relative to it; cleaned.
CanonicalOf(file, ref) ==
    LET rel == PathRel(rootArg, PathJoin(PathDir(file), ref))
    IN  WithoutParents(IF rootArg # <<>> /\ rel.ok THEN rel.path
                       ELSE PathClean(ref))

\* The package references of the file of a team that give a package: the
\* referenced file is a mapping and, under a named root, inside the root.
LoadedPackages(t) ==
    { i \in DOMAIN DeclaredIn(t, "packages") :
        LET r == [ file |-> t.SourceFile, ref |-> DeclaredIn(t, "packages")[i] ]
        IN  /\ r.ref # <<>>
            /\ TargetOf(r).ok
            /\ TargetOf(r).path \in DOMAIN disk.files
            /\ disk.files[TargetOf(r).path].kind = "mapping"
            /\ rootArg = <<>> \/ Below(TargetOf(r).path, RealRoot) }

\* Those of them that are the first to name their canonical path.
FirstPackages(t) ==
    { i \in LoadedPackages(t) :
        \A j \in LoadedPackages(t) :
            j < i => CanonicalOf(t.SourceFile, DeclaredIn(t, "packages")[j])
                       # CanonicalOf(t.SourceFile, DeclaredIn(t, "packages")[i]) }

Nth(S, k) == CHOOSE i \in S : Cardinality({ j \in S : j <= i }) = k

\* The duplicate errors recorded for the file of a team.
DuplicateErrors(t) ==
    { e \in DOMAIN parsed.repo.Errors :
        /\ parsed.repo.Errors[e].File = t.SourceFile
        /\ parsed.repo.Errors[e].Message[1]
               = "duplicate software package reference: " }

\* The package a reference of the file of a team stands for: the url and
\* self_service of the referenced file, the latter replaced by the
\* self_service of the reference when it gives one.
PackageOf(t, i) ==
    LET target == disk.files[TargetOf([ file |-> t.SourceFile,
                                        ref |-> DeclaredIn(t, "packages")[i] ]).path]
        override == DeclaredIn(t, "selfService")[i]
    IN  [ URL |-> target.items[1],
          SelfService |-> IF ~override.nil THEN override.v
                          ELSE IF "selfService" \in DOMAIN target
                          THEN target.selfService ELSE FALSE,
          RefPath |-> CanonicalOf(t.SourceFile, DeclaredIn(t, "packages")[i]) ]

\* C15 (duplicate software references): the packages of a returned team
\* are, in order, those of the first reference to each canonical path, each
\* with the self_service its own reference gives (or that of the package
\* file when the reference gives none); every later reference to a path
\* already seen adds no package and exactly one "duplicate software
\* package reference" error, so the canonical paths of the team's packages
\* are pairwise distinct.
DuplicateSoftwareReferences ==
    \A t \in Range(parsed.repo.Teams) :
        /\ Len(t.Packages) = Cardinality(FirstPackages(t))
        /\ \A k \in 1..Len(t.Packages) :
              /\ t.Packages[k].URL = PackageOf(t, Nth(FirstPackages(t), k)).URL
              /\ t.Packages[k].SelfService
                    = PackageOf(t, Nth(FirstPackages(t), k)).SelfService
              /\ t.Packages[k].RefPath
                    = PackageOf(t, Nth(FirstPackages(t), k)).RefPath
        /\ Cardinality(DuplicateErrors(t))
               = Cardinality(LoadedPackages(t) \ FirstPackages(t))
        /\ \A e \in DuplicateErrors(t) :
              \E i \in LoadedPackages(t) \ FirstPackages(t) :
                  parsed.repo.Errors[e].Message[2]
                      = CanonicalOf(t.SourceFile, DeclaredIn(t, "packages")[i])
        /\ DistinctBy(t.Packages, RefPathKey)

\* C15 happens: under a named root a team file refers three times to one
\* package file whose self_service is false, the first time with
\* self_service true and under another spelling than the last; one package
\* is kept, with self_service true, and two duplicate errors are recorded.
DuplicateSoftwareReferencesSeen ==
    /\ rootArg # <<>>
    /\ \E t \in Range(parsed.repo.Teams) :
          /\ Len(DeclaredIn(t, "packages")) = 3
          /\ DeclaredIn(t, "packages")[1] # DeclaredIn(t, "packages")[3]
          /\ DeclaredIn(t, "selfService")[1] = [ nil |-> FALSE, v |-> TRUE ]
          /\ DeclaredIn(t, "selfService")[3] = [ nil |-> FALSE, v |-> FALSE ]
          /\ Len(t.Packages) = 1
          /\ t.Packages[1].SelfService
          /\ Cardinality(DuplicateErrors(t)) = 2

(***************************************************************************)
(* The files of teams/.                                                    *)
(***************************************************************************)
\* The directory ParseRepo lists, when it is there.
RealTeamsDir ==
    EvalSymlinks(disk, PathAbs(workingDir, PathJoin(rootArg, << "teams" >>)))

Listed == calls > 0 /\ RealTeamsDir.ok /\ RealTeamsDir.path \in disk.dirs

\* The path ParseRepo gives the entry of a name.
TeamPath(name) == PathJoin(rootArg, << "teams", name >>)

\* The teams/*.yml files, in directory order: the entries that are not
\* directories and whose name ends in .yml.
YmlFiles ==
    SelectSeq(TeamFileNames,
              LAMBDA name :
                  /\ name \in { "d.yml", "t.yml", "u.yml" }
                  /\ Append(RealTeamsDir.path, name)
                         \in DOMAIN disk.files \cup DOMAIN disk.links)

\* The file can be read, is a YAML mapping and has a name.
Loadable(name) ==
    /\ FileAt(TeamPath(name)).kind = "team"
    /\ FileAt(TeamPath(name)).name # <<>>

PassesFilter(name) ==
    teamFilter = <<>> \/ SameFold(FileAt(TeamPath(name)).name, teamFilter)

ErrorsOf(file) ==
    { e \in DOMAIN parsed.repo.Errors : parsed.repo.Errors[e].File = file }

\* C16 (per-file error isolation): the teams ParseRepo returns are, in
\* directory order, one for each teams/*.yml file that can be read, is
\* valid YAML, has a name and passes the team filter; a file that cannot be
\* read, is malformed or has no name has at least one error and no team,
\* whatever comes before or after it.
PerFileIsolation ==
    Listed =>
        LET expected == SelectSeq(YmlFiles,
                                  LAMBDA name : Loadable(name) /\ PassesFilter(name))
        IN  /\ Len(parsed.repo.Teams) = Len(expected)
            /\ \A i \in 1..Len(expected) :
                  /\ parsed.repo.Teams[i].SourceFile = TeamPath(expected[i])
                  /\ parsed.repo.Teams[i].Name = FileAt(TeamPath(expected[i])).name
            /\ \A name \in Range(YmlFiles) :
                  ~Loadable(name) =>
                      /\ ErrorsOf(TeamPath(name)) # {}
                      /\ \A t \in Range(parsed.repo.Teams) :
                            t.SourceFile # TeamPath(name)

\* C16 happens: t.yml cannot be loaded and u.yml, after it, can; the model
\* holds the team of u.yml alone and an error for t.yml.
PerFileIsolationSeen ==
    /\ Listed
    /\ rootArg # <<>>
    /\ Range(YmlFiles) = { "t.yml", "u.yml" }
    /\ ~Loadable("t.yml")
    /\ Loadable("u.yml")
    /\ Len(parsed.repo.Teams) = 1
    /\ parsed.repo.Teams[1].SourceFile = TeamPath("u.yml")
    /\ ErrorsOf(TeamPath("t.yml")) # {}

\* C16 happens: both files can be loaded and the filter lets through the
\* second only; a directory d.yml and a team file n.yaml are passed over.
PerFileIsolationSeenUnderFilter ==
    /\ Listed
    /\ teamFilter # <<>>
    /\ Append(RealTeamsDir.path, "d.yml") \in disk.dirs
    /\ Append(RealTeamsDir.path, "n.yaml") \in DOMAIN disk.files
    /\ Loadable("t.yml") /\ ~PassesFilter("t.yml")
    /\ Loadable("u.yml") /\ PassesFilter("u.yml")
    /\ Len(parsed.repo.Teams) = 1
    /\ parsed.repo.Teams[1].SourceFile = TeamPath("u.yml")

(***************************************************************************)
(* A root without teams/.                                                  *)
(***************************************************************************)
\* The default file ParseRepo would load: the override, or default.yml
\* under the root.
ResolvedDefault ==
    IF defaultFile # <<>> THEN defaultFile
    ELSE PathJoin(rootArg, << "default.yml" >>)

\* C17 (structural failure is terminal): when there is no teams/ directory
\* under the root, ParseRepo returns a model without teams, labels and
\* global scope, with one error, which names the teams directory, and has
\* read no file, the default file included.
StructuralFailure ==
    (calls > 0 /\ ~RealTeamsDir.ok) =>
        /\ ~parsed.fatal
        /\ parsed.repo.Teams = <<>>
        /\ parsed.repo.Labels = <<>>
        /\ parsed.repo.Global.nil
        /\ Len(parsed.repo.Errors) = 1
        /\ parsed.repo.Errors[1].File = PathJoin(rootArg, << "teams" >>)
        /\ parsed.reads = {}

\* C17 happens: the root has no teams/ directory, a default file is given
\* by an override path and is there, and the model is empty but for the
\* one error.
StructuralFailureSeen ==
    /\ calls > 0
    /\ ~RealTeamsDir.ok
    /\ defaultFile # <<>>
    /\ FileAt(defaultFile).kind = "default"
    /\ parsed.repo.Global.nil
    /\ Len(parsed.repo.Errors) = 1

\* C17 happens: the root has no teams/ directory and holds a default.yml.
StructuralFailureSeenWithDefault ==
    /\ calls > 0
    /\ ~RealTeamsDir.ok
    /\ defaultFile = <<>>
    /\ FileAt(ResolvedDefault).kind = "default"
    /\ parsed.repo.Global.nil
    /\ Len(parsed.repo.Errors) = 1

(***************************************************************************)
(* The names of profiles.                                                  *)
(***************************************************************************)
\* The profiles of the returned teams.
ParsedProfiles == UNION { Range(t.Profiles) : t \in Range(parsed.repo.Teams) }

\* The parts of the file name of a profile: stem and extensions.
FileNameOf(profile) ==
    LET name == profile.Path[Len(profile.Path)]
    IN  CASE name = "m.mobileconfig" -> << "m", ".mobileconfig" >>
          [] name = "M.MOBILECONFIG" -> << "M", ".MOBILECONFIG" >>
          [] name = "j.json"         -> << "j", ".json" >>
          [] name = "w.xml"          -> << "w", ".xml" >>
          [] name = "a.xml.json"     -> << "a", ".xml", ".json" >>
          [] name = "p.txt"          -> << "p", ".txt" >>
          [] OTHER                   -> << name >>

\* The file name with its extension stripped.
Stem(profile) ==
    IF Len(FileNameOf(profile)) > 1
    THEN SubSeq(FileNameOf(profile), 1, Len(FileNameOf(profile)) - 1)
    ELSE FileNameOf(profile)

IsMobileconfig(profile) ==
    FileNameOf(profile)[Len(FileNameOf(profile))]
        \in { ".mobileconfig", ".MOBILECONFIG" }

\* A text without its leading and trailing white space.
Stripped(text) ==
    LET inked == { i \in 1..Len(text) : text[i] \notin { " ", "\n" } }
    IN  IF inked = {} THEN <<>>
        ELSE SubSeq(text, CHOOSE i \in inked : \A j \in inked : i <= j,
                          CHOOSE i \in inked : \A j \in inked : j <= i)

\* The positions of the PayloadDisplayName keys of the data.
Occurrences(data) == { k \in 1..Len(data) : data[k] = Needle }

\* The "<string>" that is the value of the key at position k: the first
\* thing after the key that is not white space.
ValueOpen(data, k) ==
    { i \in (k + 1)..Len(data) :
        /\ data[i] = StringOpen
        /\ \A j \in (k + 1)..(i - 1) : data[j] \in { " ", "\n" } }

\* The "</string>" positions after it.
ValueClose(data, k) ==
    { i \in 1..Len(data) :
        data[i] = StringClose /\ \E o \in ValueOpen(data, k) : o < i }

\* The key at position k has a string value.
HasString(data, k) == ValueClose(data, k) # {}

StringValueAt(data, k) ==
    Stripped(SubSeq(data,
                    (CHOOSE o \in ValueOpen(data, k) : TRUE) + 1,
                    (CHOOSE i \in ValueClose(data, k) :
                         \A j \in ValueClose(data, k) : i <= j) - 1))

\* The string value of the last PayloadDisplayName that has one.
ContentName(data) ==
    LET valued == { k \in Occurrences(data) : HasString(data, k) }
    IN  IF valued = {} THEN <<>>
        ELSE StringValueAt(data, CHOOSE k \in valued : \A j \in valued : j <= k)

\* A name can be taken from the content of the file of a profile: the file
\* is a .mobileconfig, is there, is not larger than 10 MB and holds a
\* PayloadDisplayName with a string value.
HasContentName(profile) ==
    /\ IsMobileconfig(profile)
    /\ FileAt(profile.Path).kind = "profile"
    /\ FileAt(profile.Path).size <= 10 * 1024 * 1024
    /\ ContentName(FileAt(profile.Path).data) # <<>>

\* C18 (profile identity derivation), as the specification states it: the
\* name of a parsed profile is the string value of the last
\* PayloadDisplayName of its file when the file is a .mobileconfig that can
\* be read, is not larger than 10 MB and has such a value, and the file
\* name with its extension stripped in every other case.
ProfileIdentity ==
    \A profile \in ParsedProfiles :
        profile.Name = IF HasContentName(profile)
                       THEN ContentName(FileAt(profile.Path).data)
                       ELSE Stem(profile)

\* C18 fails in this way: a profile file M.MOBILECONFIG without a
\* PayloadDisplayName is named by its whole file name, extension included.
ExtensionKept ==
    \E profile \in ParsedProfiles :
        /\ IsMobileconfig(profile)
        /\ ~HasContentName(profile)
        /\ profile.Name = FileNameOf(profile)
        /\ profile.Name # Stem(profile)

\* What holds of C18: a name the content gives is the name of the profile,
\* and the name of every other profile is made of its file name only.
ContentNamePreferred ==
    \A profile \in ParsedProfiles :
        IF HasContentName(profile)
        THEN profile.Name = ContentName(FileAt(profile.Path).data)
        ELSE \E n \in 0..Len(FileNameOf(profile)) :
                 profile.Name = SubSeq(FileNameOf(profile), 1, n)

\* A profile whose file holds a nested and a top-level name has the latter.
ContentNamePreferredSeen ==
    \E profile \in ParsedProfiles :
        /\ HasContentName(profile)
        /\ Cardinality(Occurrences(FileAt(profile.Path).data)) = 2
        /\ profile.Name = << "b" >>

(***************************************************************************)
(* FetchAll: all or nothing.                                               *)
(***************************************************************************)
\* The endpoints the call concerns: the three it asks first, the global
\* ones when wantGlobal, and the four of every team the server lists.
Concerned ==
    { Endpoint("teams", 0), Endpoint("labels", 0), Endpoint("fleet_maintained_apps", 0) }
       \cup (IF wantGlobal THEN { Endpoint("config", 0), Endpoint("policies", 0), Endpoint("queries", 0) } ELSE {})
       \cup { Endpoint(path, TeamID(i)) : path \in { "policies", "queries", "profiles", "software" }, i \in 1..server.teamCount }

\* The status the server answers an endpoint with (0: no answer at all).
StatusOf(e) ==
    IF e \notin DOMAIN server.failures THEN 200
    ELSE server.failures[e][Len(server.failures[e])].StatusCode

\* A failure FetchAll is said not to recover from.
Unrecoverable(e) ==
    /\ StatusOf(e) # 200
    /\ ~(e.path = "fleet_maintained_apps" /\ StatusOf(e) \in { 404, 403 })

\* The team of index i carries what the server holds for its four endpoints.
CarriesOwnResults(team, i) ==
    /\ team.ID = TeamID(i)
    /\ team.Policies = << Endpoint("policies", TeamID(i)) >>
    /\ team.Queries = << Endpoint("queries", TeamID(i)) >>
    /\ team.Profiles = << Endpoint("profiles", TeamID(i)) >>
    /\ team.SoftwareTitles = << Endpoint("software", TeamID(i)) >>

\* C19: under every interleaving, FetchAll returns an error and no state
\* when some request it concerns fails with anything but a 404 or 403 of the
\* catalog endpoint (and the group holds an error from the first failure
\* on); otherwise it returns a state in which every listed team carries the
\* results of its own four fetches, with an empty catalog when the catalog
\* endpoint answered 404 or 403.
AllOrNothingFetch ==
    /\ groupErr # NoError => \E e \in Concerned : Unrecoverable(e)
    /\ fetchPc = "done" =>
          IF \E e \in Concerned : Unrecoverable(e)
          THEN returned.nil /\ returned.err # <<>>
          ELSE /\ ~returned.nil
               /\ returned.err = <<>>
               /\ Len(returned.state.Teams) = server.teamCount
               /\ \A i \in 1..server.teamCount : CarriesOwnResults(returned.state.Teams[i], i)
               /\ returned.state.FleetMaintainedCatalog =
                     IF StatusOf(Endpoint("fleet_maintained_apps", 0)) = 200
                     THEN << Endpoint("fleet_maintained_apps", 0) >>
                     ELSE <<>>
               /\ wantGlobal => /\ returned.state.GlobalPolicies = << Endpoint("policies", 0) >>
                                /\ returned.state.GlobalQueries = << Endpoint("queries", 0) >>
                                /\ ~returned.state.Config.nil

\* A fetch of two teams succeeded although the catalog endpoint answered 403.
CatalogFallbackSeen ==
    /\ fetchPc = "done"
    /\ ~returned.nil
    /\ server.teamCount = MaxTeams
    /\ wantGlobal
    /\ StatusOf(Endpoint("fleet_maintained_apps", 0)) = 403

\* A fetch failed on the last request of its second team, after every other
\* function of the group had stored its result.
LateFailureSeen ==
    /\ fetchPc = "done"
    /\ returned.nil
    /\ server.teamCount = MaxTeams
    /\ StatusOf(Endpoint("software", TeamID(MaxTeams))) = 404
    /\ teamResults[1].SoftwareTitles # <<>>
    /\ teamResults[MaxTeams].Profiles # <<>>

(***************************************************************************)
(* Matching of policies and queries by name.                               *)
(***************************************************************************)
\* The entries of a list whose name is, or is not, in another list.
Named(list, other) == SelectSeq(list, LAMBDA x : \E j \in DOMAIN other : other[j].Name = x.Name)
NotNamed(list, other) == SelectSeq(list, LAMBDA x : \A j \in DOMAIN other : other[j].Name # x.Name)

\* The remote resource a proposed one is matched with.
Matched(remote, x) == LastNamed(remote, x.Name)

\* Free text is the same when its words are.
SameText(a, b) == Words(a) = Words(b)

\* The compared fields in which a policy differs from its remote.
PolicyDiffering(r, x) ==
    (IF SameText(r.Query, x.Query) THEN {} ELSE { "query" })
       \cup (IF SameText(r.Description, x.Description) THEN {} ELSE { "description" })
       \cup (IF SameText(r.Resolution, x.Resolution) THEN {} ELSE { "resolution" })
       \cup (IF r.Platform = x.Platform THEN {} ELSE { "platform" })
       \cup (IF r.Critical = x.Critical THEN {} ELSE { "critical" })

\* The compared fields in which a query differs from its remote, every
\* field but the text by exact equality.
QueryDiffering(r, x) ==
    (IF SameText(r.Query, x.Query) THEN {} ELSE { "query" })
       \cup (IF r.Interval = x.Interval THEN {} ELSE { "interval" })
       \cup (IF r.Platform = x.Platform THEN {} ELSE { "platform" })
       \cup (IF r.Logging = x.Logging THEN {} ELSE { "logging" })

\* The same, a proposed query without logging differing from no logging.
QueryDifferingWhereSet(r, x) ==
    (IF SameText(r.Query, x.Query) THEN {} ELSE { "query" })
       \cup (IF r.Interval = x.Interval THEN {} ELSE { "interval" })
       \cup (IF r.Platform = x.Platform THEN {} ELSE { "platform" })
       \cup (IF r.Logging = x.Logging \/ x.Logging = <<>> THEN {} ELSE { "logging" })

\* A bucket matches its lists by name: Added are the proposed resources
\* with no remote, Deleted the remote ones with no proposed, Modified the
\* proposed ones that differ from their remote, with the differing fields.
MatchedByName(c, Differing(_, _)) ==
    LET both == Named(c.proposed, c.remote)
        changed == SelectSeq(both, LAMBDA x : Differing(Matched(c.remote, x), x) # {})
    IN  /\ NameList(c.diff.Added) = NameList(NotNamed(c.proposed, c.remote))
        /\ NameList(c.diff.Deleted) = NameList(NotNamed(c.remote, c.proposed))
        /\ NameList(c.diff.Modified) = NameList(changed)
        /\ \A i \in DOMAIN changed : DOMAIN c.diff.Modified[i].Fields = Differing(Matched(c.remote, changed[i]), changed[i])

\* C20 as stated: policies and queries are matched by name, a resource on
\* both sides being Modified exactly when a compared field differs (free
\* text after whitespace normalization, the others by exact equality), with
\* exactly the differing fields.
MatchingAlgorithmAsStated ==
    /\ \A c \in PolicyCases : MatchedByName(c, PolicyDiffering)
    /\ \A c \in QueryCases : MatchedByName(c, QueryDiffering)

\* C20, amended: the same, except that the logging of a query is compared
\* only when the proposed query sets it; a proposed query without logging
\* never differs in logging.
MatchingAlgorithm ==
    /\ \A c \in PolicyCases : MatchedByName(c, PolicyDiffering)
    /\ \A c \in QueryCases : MatchedByName(c, QueryDifferingWhereSet)

\* A query on both sides differed in logging only, the proposed side
\* setting it, and was reported Modified with that field alone.
LoggingChangeSeen ==
    \E c \in QueryCases :
       /\ Len(c.diff.Modified) = 1
       /\ DOMAIN c.diff.Modified[1].Fields = { "logging" }
       /\ c.proposed[1].Logging # <<>>

\* A query whose remote has a logging the proposed side leaves unset was
\* not reported at all.
UnsetLoggingSeen ==
    \E c \in QueryCases :
       /\ Len(c.remote) = 1 /\ Len(c.proposed) = 1
       /\ c.remote[1].Name = c.proposed[1].Name
       /\ c.remote[1].Logging # <<>>
       /\ c.proposed[1].Logging = <<>>
       /\ c.diff.Modified = <<>>

(***************************************************************************)
(* Added entries and their fields.                                         *)
(***************************************************************************)
\* The Added entries of a result, over its four buckets.
AddedEntries(result) ==
    { result.Policies.Added[i] : i \in DOMAIN result.Policies.Added }
       \cup { result.Queries.Added[i] : i \in DOMAIN result.Queries.Added }
       \cup { result.Software.Added[i] : i \in DOMAIN result.Software.Added }
       \cup { result.Profiles.Added[i] : i \in DOMAIN result.Profiles.Added }

\* An entry with a non-empty Fields map in which no field has an old value.
SeededFromProposed(entry) ==
    /\ DOMAIN entry.Fields # {}
    /\ \A f \in DOMAIN entry.Fields : entry.Fields[f].Old = <<>>

\* C21: every Added entry of every result, in any bucket and for any team,
\* has a non-empty Fields map in which every field has an empty Old value.
AddedCarryFields ==
    Ran => \A i \in DOMAIN results : \A e \in AddedEntries(results[i]) : SeededFromProposed(e)

\* The same for the teams that exist remotely and for the global result.
AddedCarryFieldsWhenPresent ==
    /\ \A c \in PresentCases : \A e \in AddedEntries(c.result) : SeededFromProposed(e)
    /\ \A c \in PolicyCases : \A i \in DOMAIN c.diff.Added : SeededFromProposed(c.diff.Added[i])
    /\ \A c \in QueryCases : \A i \in DOMAIN c.diff.Added : SeededFromProposed(c.diff.Added[i])

\* A team that does not exist remotely declared a policy, and the policy
\* was reported Added with no fields at all.
NewTeamAddedWithoutFields ==
    \E c \in AbsentCases :
       /\ ~SameFold(c.proposed.Name, NoTeam)
       /\ c.proposed.Policies # <<>>
       /\ Len(c.result.Policies.Added) = Len(c.proposed.Policies)
       /\ DOMAIN c.result.Policies.Added[1].Fields = {}

(***************************************************************************)
(* Classification of the leaves of the global configuration.               *)
(***************************************************************************)
\* The leaves of a proposed section with the keys that lead to them.
RECURSIVE PathLeaves(_, _)
PathLeaves(m, path) ==
    UNION { IF m[k].kind = "map" THEN PathLeaves(m[k].v, path \o << k >>)
            ELSE { [ Path |-> path \o << k >>, Value |-> m[k] ] }
            : k \in DOMAIN m }

\* The dot-separated key of a path.
RECURSIVE Dotted(_)
Dotted(path) ==
    IF Len(path) = 1 THEN path[1] ELSE path[1] \o <<".">> \o Dotted(Tail(path))

\* Where a section lives in the remote configuration, if it lives there.
RemoteLocation(section) ==
    IF section # AgentOptions THEN [ there |-> TRUE, m |-> current.Config.m ]
    ELSE IF AgentOptions \in DOMAIN current.Config.m /\ current.Config.m[AgentOptions].kind = "map"
    THEN [ there |-> TRUE, m |-> current.Config.m[AgentOptions].v ]
    ELSE [ there |-> FALSE, m |-> <<>> ]

\* The remote value at a path, if the path leads to one.
RECURSIVE RemoteAt(_, _)
RemoteAt(m, path) ==
    IF path[1] \notin DOMAIN m THEN [ found |-> FALSE, printed |-> <<>> ]
    ELSE IF Len(path) = 1 THEN [ found |-> TRUE, printed |-> Sprint(m[path[1]]) ]
    ELSE IF m[path[1]].kind = "map" THEN RemoteAt(m[path[1]].v, Tail(path))
    ELSE [ found |-> FALSE, printed |-> <<>> ]

RemoteLeaf(section, path) ==
    IF RemoteLocation(section).there THEN RemoteAt(RemoteLocation(section).m, path)
    ELSE [ found |-> FALSE, printed |-> <<>> ]

\* The entries of the Config change list for a leaf of a section.
ConfigEntries(section, path) ==
    { i \in DOMAIN results[1].Config :
         results[1].Config[i].Section = section /\ results[1].Config[i].Key = Dotted(path) }

\* The one entry for a leaf carries the given old and new values.
ReportedOnce(section, path, old, new) ==
    /\ Cardinality(ConfigEntries(section, path)) = 1
    /\ \A i \in ConfigEntries(section, path) :
          results[1].Config[i].Old = old /\ results[1].Config[i].New = new

\* C22: a leaf of a proposed section whose printed value has no '$' is
\* reported once with no old value when its mapped remote location does not
\* have it, once with the old and new values when the printed remote value
\* differs, and not at all when the two are equal.
ConfigClassification ==
    (Ran /\ HasGlobal /\ ~current.Config.nil) =>
        \A sec \in ProposedSections :
            \A leaf \in PathLeaves(sec.Map.m, <<>>) :
                ~HasMarker(Sprint(leaf.Value)) =>
                    LET r == RemoteLeaf(sec.Name, leaf.Path)
                    IN  IF ~r.found
                        THEN ReportedOnce(sec.Name, leaf.Path, <<>>, Sprint(leaf.Value))
                        ELSE IF r.printed # Sprint(leaf.Value)
                        THEN ReportedOnce(sec.Name, leaf.Path, r.printed, Sprint(leaf.Value))
                        ELSE ConfigEntries(sec.Name, leaf.Path) = {}

\* A proposed leaf with the empty string as its value, under a key its
\* remote location does not have, was not reported.
EmptyLeafUnreported ==
    /\ Ran /\ HasGlobal /\ ~current.Config.nil
    /\ \E sec \in ProposedSections :
          \E leaf \in PathLeaves(sec.Map.m, <<>>) :
             /\ Sprint(leaf.Value) = <<>>
             /\ RemoteLocation(sec.Name).there
             /\ ~RemoteLeaf(sec.Name, leaf.Path).found
             /\ ConfigEntries(sec.Name, leaf.Path) = {}

\* The same leaf was reported, its section having no remote location.
EmptyLeafReported ==
    /\ Ran /\ HasGlobal /\ ~current.Config.nil
    /\ \E sec \in ProposedSections :
          \E leaf \in PathLeaves(sec.Map.m, <<>>) :
             /\ Sprint(leaf.Value) = <<>>
             /\ ~RemoteLocation(sec.Name).there
             /\ ConfigEntries(sec.Name, leaf.Path) # {}

\* The classification holds for every leaf whose printed value is not empty.
ConfigClassificationOfValues ==
    (Ran /\ HasGlobal /\ ~current.Config.nil) =>
        \A sec \in ProposedSections :
            \A leaf \in PathLeaves(sec.Map.m, <<>>) :
                (~HasMarker(Sprint(leaf.Value)) /\ Sprint(leaf.Value) # <<>>) =>
                    LET r == RemoteLeaf(sec.Name, leaf.Path)
                    IN  IF ~r.found
                        THEN ReportedOnce(sec.Name, leaf.Path, <<>>, Sprint(leaf.Value))
                        ELSE IF r.printed # Sprint(leaf.Value)
                        THEN ReportedOnce(sec.Name, leaf.Path, r.printed, Sprint(leaf.Value))
                        ELSE ConfigEntries(sec.Name, leaf.Path) = {}

(***************************************************************************)
(* Stored free text is normalized.                                         *)
(***************************************************************************)
\* The words of a text with one space between them.
RECURSIVE Spaced(_)
Spaced(words) ==
    IF words = <<>> THEN <<>>
    ELSE IF Len(words) = 1 THEN words[1]
    ELSE words[1] \o <<" ">> \o Spaced(Tail(words))

Canonical(text) == Spaced(Words(text))

\* No whitespace at either end and no two whitespace characters in a row.
Tidy(text) ==
    /\ text # <<>> => text[1] \notin { " ", "\n" } /\ text[Len(text)] \notin { " ", "\n" }
    /\ \A i \in 1..(Len(text) - 1) : ~(text[i] \in { " ", "\n" } /\ text[i + 1] \in { " ", "\n" })

\* The free-text fields of policies and of queries.
FreeText == { "query", "description", "resolution" }

\* The free text of a resource under a field name.
TextOf(x, f) ==
    IF f = "query" THEN x.Query
    ELSE IF f = "description" THEN x.Description
    ELSE x.Resolution

\* An Added entry stores the canonical text of a proposed resource of its
\* name under every free-text field it has.
AddedStoresCanonical(c, e) ==
    \E i \in DOMAIN c.proposed :
       /\ c.proposed[i].Name = e.Name
       /\ \A f \in FreeText \cap DOMAIN e.Fields :
             /\ e.Fields[f].Old = <<>>
             /\ e.Fields[f].New = Canonical(TextOf(c.proposed[i], f))
             /\ Tidy(e.Fields[f].New)

\* A Modified entry stores the canonical texts of both sides.
ModifiedStoresCanonical(c, e) ==
    \E i \in DOMAIN c.proposed :
       /\ c.proposed[i].Name = e.Name
       /\ \A f \in FreeText \cap DOMAIN e.Fields :
             /\ e.Fields[f].Old = Canonical(TextOf(Matched(c.remote, c.proposed[i]), f))
             /\ e.Fields[f].New = Canonical(TextOf(c.proposed[i], f))
             /\ Tidy(e.Fields[f].Old) /\ Tidy(e.Fields[f].New)

StoredModifiedNormalizedSeen ==
    \E c \in PolicyCases \cup QueryCases : \E i \in DOMAIN c.diff.Modified : \E j \in DOMAIN c.proposed :
       /\ c.proposed[j].Name = c.diff.Modified[i].Name
       /\ "query" \in DOMAIN c.diff.Modified[i].Fields
       /\ ~Tidy(c.proposed[j].Query) \/ ~Tidy(Matched(c.remote, c.proposed[j]).Query)

(***************************************************************************)
(* Inference of the fleet-maintained apps a team has.                      *)
(***************************************************************************)
\* The normalized (name, platform) pair of a title or of a catalog entry;
\* the empty pair when either part is empty.
NormalPlatform(platform) ==
    IF TrimSpace(ToLower(platform)) = <<"m", "a", "c", "o", "s">>
    THEN <<"d", "a", "r", "w", "i", "n">>
    ELSE TrimSpace(ToLower(platform))

NormalPair(name, platform) ==
    IF TrimSpace(ToLower(name)) = <<>> \/ NormalPlatform(platform) = <<>> THEN <<>>
    ELSE << TrimSpace(ToLower(name)), NormalPlatform(platform) >>

\* The catalog entries that match a title.
MatchesOf(title, catalog) ==
    { i \in DOMAIN catalog :
         /\ NormalPair(title.Name, title.SoftwarePackage.Platform) # <<>>
         /\ NormalPair(catalog[i].Name, catalog[i].Platform) = NormalPair(title.Name, title.SoftwarePackage.Platform) }

\* The titles of a team an app is inferred from.  fromApps: only titles
\* whose source is "apps", in any letter case.
InferredFrom(team, catalog, fromApps) ==
    { t \in Range(team.SoftwareTitles) :
         /\ ~t.SoftwarePackage.nil
         /\ ~t.AppStoreApp
         /\ fromApps => SameFold(TrimSpace(t.Source), <<"a", "p", "p", "s">>)
         /\ \A pkg \in Range(team.Software.Packages) :
               \/ normalizeSoftwarePath(pkg.URL) = <<>>
               \/ normalizeSoftwarePath(pkg.URL) # normalizeSoftwarePath(t.SoftwarePackage.PackageURL)
         /\ Cardinality(MatchesOf(t, catalog)) = 1 }

\* The slug of the one catalog entry a title matches.
SlugOf(t, catalog) == TrimSpace(ToLower(catalog[CHOOSE i \in MatchesOf(t, catalog) : TRUE].Slug))

\* The apps treated as present: slug and self-service flag.
PresentApps(c, fromApps) ==
    IF ~c.remote.Software.FleetMaintained.nil
    THEN { [ Slug |-> TrimSpace(ToLower(a.Slug)), SelfService |-> a.SelfService ] :
              a \in Range(c.remote.Software.FleetMaintained.elems) }
    ELSE IF c.proposed.Software.FleetMaintained = <<>> THEN {}
    ELSE { app \in { [ Slug |-> SlugOf(t, current.FleetMaintainedCatalog), SelfService |-> t.SoftwarePackage.SelfService ] :
                        t \in InferredFrom(c.remote, current.FleetMaintainedCatalog, fromApps) } :
              app.Slug # <<>> }

\* The declared apps, by slug.
DeclaredApps(c) ==
    { app \in { [ Slug |-> TrimSpace(ToLower(a.Slug)), SelfService |-> a.SelfService ] :
                   a \in Range(c.proposed.Software.FleetMaintained) } : app.Slug # <<>> }

SlugsOf(apps) == { a.Slug : a \in apps }

\* The software bucket reports the declared apps against the present ones.
ReportedAgainst(c, present) ==
    /\ NamesOf(FleetEntries(c.result.Software.Added))
          = { FleetAppPrefix \o k : k \in SlugsOf(DeclaredApps(c)) \ SlugsOf(present) }
    /\ NamesOf(FleetEntries(c.result.Software.Deleted))
          = { FleetAppPrefix \o k : k \in SlugsOf(present) \ SlugsOf(DeclaredApps(c)) }
    /\ NamesOf(FleetEntries(c.result.Software.Modified))
          \subseteq { FleetAppPrefix \o k : k \in SlugsOf(present) \cap SlugsOf(DeclaredApps(c)) }
    /\ \A e \in Range(FleetEntries(c.result.Software.Modified)) :
          \E a \in present : \E d \in DeclaredApps(c) :
             /\ e.Name = FleetAppPrefix \o a.Slug /\ d.Slug = a.Slug
             /\ a.SelfService # d.SelfService
             /\ e.Fields["self_service"].Old = SprintBool(a.SelfService)
    /\ \A k \in SlugsOf(present) \cap SlugsOf(DeclaredApps(c)) :
          (FleetAppPrefix \o k) \notin NamesOf(FleetEntries(c.result.Software.Modified))
             => \E a \in present : \E d \in DeclaredApps(c) :
                   a.Slug = k /\ d.Slug = k /\ a.SelfService = d.SelfService

\* The teams of the model whose remote side has titles.
InferenceCases == { c \in PresentCases : c.remote.SoftwareTitles # <<>> }

\* C24 as stated: the apps present are inferred from every title with package
\* metadata that is no app-store app, has no custom package's URL and
\* matches one catalog entry.
VendorAppInferenceAsStated ==
    \A c \in InferenceCases : ReportedAgainst(c, PresentApps(c, FALSE))

\* C24, amended: the same, from the titles whose source is "apps" only.
VendorAppInference ==
    \A c \in InferenceCases : ReportedAgainst(c, PresentApps(c, TRUE))

\* The remote list was null, an app was declared, and an app inferred from a
\* title took part in the diff: it was Deleted or Modified, or kept a
\* declared app from being Added.
VendorAppInferenceSeen ==
    \E c \in InferenceCases :
       /\ c.remote.Software.FleetMaintained.nil
       /\ c.proposed.Software.FleetMaintained # <<>>
       /\ PresentApps(c, TRUE) # {}
       /\ SlugsOf(DeclaredApps(c)) \cap SlugsOf(PresentApps(c, TRUE)) # {}
       /\ \/ FleetEntries(c.result.Software.Deleted) # <<>>
          \/ FleetEntries(c.result.Software.Modified) # <<>>

\* A title whose source is not "apps" matched one catalog entry and nothing
\* was inferred from it: the declared app of that slug was Added.
OtherSourceNotInferred ==
    \E c \in InferenceCases :
       /\ c.remote.Software.FleetMaintained.nil
       /\ PresentApps(c, TRUE) = {}
       /\ PresentApps(c, FALSE) # {}
       /\ \E a \in PresentApps(c, FALSE) :
             (FleetAppPrefix \o a.Slug) \in NamesOf(FleetEntries(c.result.Software.Added))

\* The remote list was empty but not null, and nothing was inferred from a
\* title that matches one catalog entry.
NoInferenceWhenListed ==
    \E c \in InferenceCases :
       /\ ~c.remote.Software.FleetMaintained.nil
       /\ c.proposed.Software.FleetMaintained # <<>>
       /\ InferredFrom(c.remote, current.FleetMaintainedCatalog, TRUE) # {}
       /\ Len(FleetEntries(c.result.Software.Added)) = Cardinality(SlugsOf(DeclaredApps(c)))

(***************************************************************************)
(* Canonical software references.                                          *)
(***************************************************************************)
\* The reference a proposed package is known by: its reference path, else
\* the part of its source file from "software/" on, else its URL.
ProposedReference(p) ==
    IF normalizeSoftwarePath(p.RefPath) # <<>> THEN p.RefPath
    ELSE IF inferSoftwarePathFromSource(p.SourceFile) # <<>> THEN inferSoftwarePathFromSource(p.SourceFile)
    ELSE p.URL

\* The reference a remote package is known by: its path, else its URL.
RemoteReference(r) ==
    IF normalizeSoftwarePath(r.ReferencedYAMLPath) # <<>> THEN r.ReferencedYAMLPath ELSE r.URL

\* A reference without its letter case, with "/" for "\", and without a
\* leading "./", the "../" that follow it and a leading "/".
CanonicalReference(ref) ==
    LET lower == BackslashToSlash(TrimSpace(ToLower(ref)))
    IN  TrimPrefix(StripParents(TrimPrefix(lower, <<".", "/">>)), <<"/">>)

SameReference(a, b) == CanonicalReference(a) # <<>> /\ CanonicalReference(a) = CanonicalReference(b)

\* The entries of a software list that are packages.
PackageEntries(list) ==
    SelectSeq(list, LAMBDA e : /\ ~HasPrefix(e.Name, FleetAppPrefix)
                               /\ ~HasPrefix(e.Name, AppStorePrefix))

LowerCasedKey(p) ==
    \/ normalizeSoftwarePath(p.RefPath) # <<>>
    \/ ProposedReference(p) = p.URL
    \/ ProposedReference(p) = ToLower(ProposedReference(p))

\* Packages of the same reference are matched in every team all of whose
\* proposed packages have a lower-cased key.
PathCanonicalizationOfLowerCasedKeys ==
    \A c \in PresentCases :
       (\A p \in Range(c.proposed.Software.Packages) : LowerCasedKey(p))
       => \A p \in Range(c.proposed.Software.Packages) :
          \A r \in Range(c.remote.Software.Packages) :
             SameReference(ProposedReference(p), RemoteReference(r))
             => /\ CanonicalReference(RemoteReference(r)) \notin NamesOf(PackageEntries(c.result.Software.Added))
                /\ CanonicalReference(RemoteReference(r)) \notin NamesOf(PackageEntries(c.result.Software.Deleted))

(***************************************************************************)
(* Keys of the server.                                                     *)
(***************************************************************************)
\* A dot-separated key that is, or lies under, a top-level key.
Under(key, top) == key = top \/ HasPrefix(key, top \o <<".">>)

\* C26 (server-only keys are skipped): the Config change list of the global
\* result has no entry for a leaf that lies under license, logging,
\* update_interval, vulnerabilities, sandbox_enabled or server_settings.
ServerOnlyKeysSkipped ==
    (Ran /\ HasGlobal) =>
        \A i \in DOMAIN results[1].Config :
            \A top \in serverOnlyKeys : ~Under(results[1].Config[i].Key, top)

\* The proposed org_settings and the remote configuration both have
\* server_settings.a, with different values, and the change was reported.
ServerOnlyKeyReported ==
    /\ Ran /\ HasGlobal /\ ~current.Config.nil
    /\ ServerSettings \in DOMAIN current.Config.m
    /\ \E i \in DOMAIN results[1].Config :
          /\ results[1].Config[i].Section = OrgSettings
          /\ results[1].Config[i].Key = ServerSettings \o <<".">> \o KeyA
          /\ results[1].Config[i].Old = <<"x">>
          /\ results[1].Config[i].New = <<"y">>

(***************************************************************************)
(* Profiles of one name.                                                   *)
(***************************************************************************)
\* The proposed profiles that come after another profile of their name.
LaterOccurrences(profiles) ==
    { i \in 1..Len(profiles) : \E j \in 1..(i - 1) : profiles[j].Name = profiles[i].Name }

\* A message that warns about the name and the path of a profile.
WarnsAbout(msg, profile) ==
    /\ Len(msg) = 5
    /\ msg[1] = "duplicate profile name "
    /\ msg[2] = profile.Name
    /\ msg[4] = profile.Path

\* C27 (profile name collisions): when proposed profiles of a team share a
\* name, the result of the team carries one warning for each later
\* occurrence, in the order of the occurrences, and no other message; a
\* remote profile is Deleted exactly when no proposed profile has its name,
\* a name is Added exactly when a proposed profile and no remote profile has
\* it; and no profile is ever Modified.
ProfileCollisions ==
    \A c \in PresentCases :
       /\ c.result.Profiles.Modified = <<>>
       /\ LaterOccurrences(c.proposed.Profiles) # {}
          => /\ Len(c.result.Errors) = Cardinality(LaterOccurrences(c.proposed.Profiles))
             /\ \A k \in 1..Len(c.result.Errors) :
                   \E i \in LaterOccurrences(c.proposed.Profiles) :
                      /\ Cardinality({ j \in LaterOccurrences(c.proposed.Profiles) : j < i }) = k - 1
                      /\ WarnsAbout(c.result.Errors[k], c.proposed.Profiles[i])
             /\ NamesOf(c.result.Profiles.Deleted) = NamesOf(c.remote.Profiles) \ NamesOf(c.proposed.Profiles)
             /\ NamesOf(c.result.Profiles.Added) = NamesOf(c.proposed.Profiles) \ NamesOf(c.remote.Profiles)

\* Two proposed profiles share a name a remote profile has: one warning, the
\* name neither Added nor Deleted.
ProfileCollisionSeen ==
    \E c \in PresentCases :
       /\ LaterOccurrences(c.proposed.Profiles) # {}
       /\ \E i \in LaterOccurrences(c.proposed.Profiles) :
             c.proposed.Profiles[i].Name \in NamesOf(c.remote.Profiles)
       /\ Len(c.result.Errors) = 1
       /\ c.result.Profiles.Added = <<>>
       /\ c.result.Profiles.Deleted # <<>>

\* Two proposed profiles share a name no remote profile has: the name is
\* Added once for each of them.
ProfileCollisionAddedTwice ==
    \E c \in PresentCases :
       /\ LaterOccurrences(c.proposed.Profiles) # {}
       /\ Len(c.result.Errors) = 1
       /\ Len(c.result.Profiles.Added) = 2
       /\ Cardinality(NamesOf(c.result.Profiles.Added)) = 1

(***************************************************************************)
(* The root of a load.                                                     *)
(***************************************************************************)
\* What readYAMLRef makes of a reference of a call under the call's own root.
UnderOwnRoot(i, ref) ==
    readYAMLRef(disk, workingDir, loads[i].root, LoadBaseDir(loads[i].root),
                ref, LoadTeamFile(loads[i].root), "")

\* A reference was resolved as under the root of its own call.
OwnRoot(i, k) ==
    /\ loads[i].resolved[k].against = loads[i].root
    /\ loads[i].resolved[k].ok = UnderOwnRoot(i, loads[i].resolved[k].ref).ok
    /\ loads[i].resolved[k].errs = UnderOwnRoot(i, loads[i].resolved[k].ref).errs

\* C28 (repository root isolation between loads): every containment check
\* of a call of ParseRepo is made against the root of that call, and the
\* reference is accepted or rejected as under that root, whether calls for
\* different roots overlap or follow one another.
RootIsolation ==
    \A i \in DOMAIN loads : \A k \in DOMAIN loads[i].resolved : OwnRoot(i, k)

\* The same for the calls no other call overlaps with.
RootIsolationInSequence ==
    \A i \in DOMAIN loads :
        loads[i].overlaps = {} => \A k \in DOMAIN loads[i].resolved : OwnRoot(i, k)

\* A call for /r accepted a reference to a file of /o, having read the root
\* of a call that overlaps with it.
EscapeAcceptedUnderOverlap ==
    \E i \in DOMAIN loads : \E k \in DOMAIN loads[i].resolved :
        /\ loads[i].root = RepoDir
        /\ loads[i].resolved[k].ref = Up(Up(<< "o", "x.yml" >>))
        /\ loads[i].resolved[k].against # RepoDir
        /\ loads[i].resolved[k].ok
        /\ ~UnderOwnRoot(i, loads[i].resolved[k].ref).ok

\* A call for /r rejected a reference to a file of /r, under the root /o of
\* a call that overlaps with it.
InsideRejectedUnderOverlap ==
    \E i \in DOMAIN loads : \E k \in DOMAIN loads[i].resolved :
        /\ loads[i].root = RepoDir
        /\ loads[i].resolved[k].against = OutsideDir
        /\ ~loads[i].resolved[k].ok
        /\ UnderOwnRoot(i, loads[i].resolved[k].ref).ok

\* Two calls for different roots followed one another, and each resolved a
\* reference under its own root.
LoadsInSequenceSeen ==
    /\ \A i \in DOMAIN loads : loads[i].pc = "returned" /\ loads[i].overlaps = {}
    /\ \E i, j \in DOMAIN loads : loads[i].root # loads[j].root
    /\ \A i \in DOMAIN loads : loads[i].resolved # <<>>

ResultsAlone(team) ==
    { r[1] : r \in Diff([ current EXCEPT
                            !.Teams = SelectSeq(current.Teams, LAMBDA t : t.Name = team.Name),
                            !.Config = NilMap,
                            !.GlobalPolicies = <<>>,
                            !.GlobalQueries = <<>> ],
                        ParsedRepo(<< team >>, NoGlobal), <<>>) }

\* C30 (group independence): the result returned for a team is a result
\* Diff returns for that team alone, and the results Diff can return for it
\* among the other teams are those it can return for it alone.
GroupIndependence ==
    Ran => \A i \in 1..Len(SelectedTeams) :
              /\ results[GlobalOffset + i] \in ResultsAlone(SelectedTeams[i])
              /\ { r[GlobalOffset + i] : r \in Diff(current, proposed, teamFilter) }
                    = ResultsAlone(SelectedTeams[i])

\* Diff returned a result with changes for a team while a remote team and a
\* proposed team of other names were there.
GroupIndependenceSeen ==
    /\ Ran
    /\ \E i \in 1..Len(SelectedTeams) :
          /\ results[GlobalOffset + i].Policies.Modified # <<>>
          /\ \E t \in Range(current.Teams) : t.Name # SelectedTeams[i].Name
          /\ \E j \in 1..Len(SelectedTeams) : SelectedTeams[j].Name # SelectedTeams[i].Name

====
